---- MODULE Spec2Model ----
(***************************************************************************)
(* Reference resolution, search-query sanitization, validation, search,    *)
(* verse retrieval and the connection pool of solaguard.                   *)
(*                                                                         *)
(* A Python str is modelled as a sequence of one-character strings, so     *)
(* that parsing, formatting and filtering are computed character by        *)
(* character as the source computes them.  An operation that may raise     *)
(* returns an outcome: Return(v) or Raise(exception, message).  db is the  *)
(* database as the operations see it: the module globals that hold the    *)
(* DatabaseManager, its tables, and whether it answers.                   *)
(***************************************************************************)
EXTENDS Integers, Sequences, FiniteSets, TLC

VARIABLES pc, arg, mid, text, out, db

vars == <<pc, arg, mid, text, out, db>>

(* Bounds of the checked instances. *)
MaxChapter == 11
MaxVerse == 11
MaxNumber == 3
MaxTokens == 5
MaxWords == 3

(***************************************************************************)
(* Python str and int primitives.                                          *)
(***************************************************************************)
Whitespace == {" ", "\t", "\n", "\r", "\f"}

Digits == {"0", "1", "2", "3", "4", "5", "6", "7", "8", "9"}

DigitChar == <<"0", "1", "2", "3", "4", "5", "6", "7", "8", "9">>

DigitValue == [d \in Digits |-> (CHOOSE i \in 1..10 : DigitChar[i] = d) - 1]

UpperToLower ==
    ("A" :> "a") @@ ("B" :> "b") @@ ("C" :> "c") @@ ("D" :> "d") @@ ("E" :> "e") @@
    ("F" :> "f") @@ ("G" :> "g") @@ ("H" :> "h") @@ ("I" :> "i") @@ ("J" :> "j") @@
    ("K" :> "k") @@ ("L" :> "l") @@ ("M" :> "m") @@ ("N" :> "n") @@ ("O" :> "o") @@
    ("P" :> "p") @@ ("Q" :> "q") @@ ("R" :> "r") @@ ("S" :> "s") @@ ("T" :> "t") @@
    ("U" :> "u") @@ ("V" :> "v") @@ ("W" :> "w") @@ ("X" :> "x") @@ ("Y" :> "y") @@
    ("Z" :> "z")

Return(v) == [raises |-> "none", value |-> v]

Raise(exception, message) == [raises |-> exception, message |-> message]

Min(S) == CHOOSE x \in S : \A y \in S : x <= y

RECURSIVE lower(_)
lower(s) ==
    IF s = <<>> THEN <<>>
    ELSE <<IF Head(s) \in DOMAIN UpperToLower THEN UpperToLower[Head(s)] ELSE Head(s)>>
         \o lower(Tail(s))

RECURSIVE lstrip(_)
lstrip(s) == IF s # <<>> /\ Head(s) \in Whitespace THEN lstrip(Tail(s)) ELSE s

RECURSIVE rstrip(_)
rstrip(s) ==
    IF s # <<>> /\ s[Len(s)] \in Whitespace THEN rstrip(SubSeq(s, 1, Len(s) - 1)) ELSE s

strip(s) == rstrip(lstrip(s))

(* str.replace(" ", "") *)
remove_spaces(s) == SelectSeq(s, LAMBDA c : c # " ")

(* int(s) of a non-empty run of decimal digits *)
RECURSIVE int(_)
int(s) ==
    IF s = <<>> THEN 0
    ELSE 10 * int(SubSeq(s, 1, Len(s) - 1)) + DigitValue[s[Len(s)]]

(* str(n) of a natural number *)
RECURSIVE str(_)
str(n) ==
    IF n < 10 THEN <<DigitChar[n + 1]>>
    ELSE str(n \div 10) \o <<DigitChar[(n % 10) + 1]>>

(* Length of the longest run of characters of class starting at position i of s. *)
RECURSIVE RunLen(_, _, _)
RunLen(s, i, class) ==
    IF i <= Len(s) /\ s[i] \in class THEN 1 + RunLen(s, i + 1, class) ELSE 0

(***************************************************************************)
(* tools/reference_parser.py                                               *)
(***************************************************************************)
BOOK_MAPPINGS ==
    (<<"g","e","n","e","s","i","s">> :> <<"G","E","N">>) @@ (<<"g","e","n">> :> <<"G","E","N">>) @@ (<<"g","e">> :> <<"G","E","N">>) @@ (<<"g","n">> :> <<"G","E","N">>) @@
    (<<"e","x","o","d","u","s">> :> <<"E","X","O">>) @@ (<<"e","x","o">> :> <<"E","X","O">>) @@ (<<"e","x">> :> <<"E","X","O">>) @@ (<<"e","x","o","d">> :> <<"E","X","O">>) @@
    (<<"l","e","v","i","t","i","c","u","s">> :> <<"L","E","V">>) @@ (<<"l","e","v">> :> <<"L","E","V">>) @@ (<<"l","e">> :> <<"L","E","V">>) @@ (<<"l","v">> :> <<"L","E","V">>) @@
    (<<"n","u","m","b","e","r","s">> :> <<"N","U","M">>) @@ (<<"n","u","m">> :> <<"N","U","M">>) @@ (<<"n","u">> :> <<"N","U","M">>) @@ (<<"n","m">> :> <<"N","U","M">>) @@ (<<"n","b">> :> <<"N","U","M">>) @@
    (<<"d","e","u","t","e","r","o","n","o","m","y">> :> <<"D","E","U">>) @@ (<<"d","e","u","t">> :> <<"D","E","U">>) @@ (<<"d","e","u">> :> <<"D","E","U">>) @@ (<<"d","t">> :> <<"D","E","U">>) @@ (<<"d","e">> :> <<"D","E","U">>) @@
    (<<"j","o","s","h","u","a">> :> <<"J","O","S">>) @@ (<<"j","o","s","h">> :> <<"J","O","S">>) @@ (<<"j","o","s">> :> <<"J","O","S">>) @@ (<<"j","s","h">> :> <<"J","O","S">>) @@
    (<<"j","u","d","g","e","s">> :> <<"J","D","G">>) @@ (<<"j","u","d","g">> :> <<"J","D","G">>) @@ (<<"j","d","g">> :> <<"J","D","G">>) @@ (<<"j","g">> :> <<"J","D","G">>) @@ (<<"j","g","s">> :> <<"J","D","G">>) @@
    (<<"r","u","t","h">> :> <<"R","U","T">>) @@ (<<"r","u","t">> :> <<"R","U","T">>) @@ (<<"r","u">> :> <<"R","U","T">>) @@ (<<"r","t","h">> :> <<"R","U","T">>) @@
    (<<"1","s","a","m","u","e","l">> :> <<"1","S","A">>) @@ (<<"1","s","a","m">> :> <<"1","S","A">>) @@ (<<"1","s","a">> :> <<"1","S","A">>) @@ (<<"1","s">> :> <<"1","S","A">>) @@ (<<"1"," ","s","a","m","u","e","l">> :> <<"1","S","A">>) @@ (<<"1"," ","s","a","m">> :> <<"1","S","A">>) @@
    (<<"2","s","a","m","u","e","l">> :> <<"2","S","A">>) @@ (<<"2","s","a","m">> :> <<"2","S","A">>) @@ (<<"2","s","a">> :> <<"2","S","A">>) @@ (<<"2","s">> :> <<"2","S","A">>) @@ (<<"2"," ","s","a","m","u","e","l">> :> <<"2","S","A">>) @@ (<<"2"," ","s","a","m">> :> <<"2","S","A">>) @@
    (<<"1","k","i","n","g","s">> :> <<"1","K","I">>) @@ (<<"1","k","i","n","g">> :> <<"1","K","I">>) @@ (<<"1","k","i">> :> <<"1","K","I">>) @@ (<<"1","k">> :> <<"1","K","I">>) @@ (<<"1"," ","k","i","n","g","s">> :> <<"1","K","I">>) @@ (<<"1"," ","k","i","n","g">> :> <<"1","K","I">>) @@
    (<<"2","k","i","n","g","s">> :> <<"2","K","I">>) @@ (<<"2","k","i","n","g">> :> <<"2","K","I">>) @@ (<<"2","k","i">> :> <<"2","K","I">>) @@ (<<"2","k">> :> <<"2","K","I">>) @@ (<<"2"," ","k","i","n","g","s">> :> <<"2","K","I">>) @@ (<<"2"," ","k","i","n","g">> :> <<"2","K","I">>) @@
    (<<"1","c","h","r","o","n","i","c","l","e","s">> :> <<"1","C","H">>) @@ (<<"1","c","h","r","o","n">> :> <<"1","C","H">>) @@ (<<"1","c","h","r">> :> <<"1","C","H">>) @@ (<<"1","c","h">> :> <<"1","C","H">>) @@ (<<"1"," ","c","h","r","o","n","i","c","l","e","s">> :> <<"1","C","H">>) @@ (<<"1"," ","c","h","r","o","n">> :> <<"1","C","H">>) @@
    (<<"2","c","h","r","o","n","i","c","l","e","s">> :> <<"2","C","H">>) @@ (<<"2","c","h","r","o","n">> :> <<"2","C","H">>) @@ (<<"2","c","h","r">> :> <<"2","C","H">>) @@ (<<"2","c","h">> :> <<"2","C","H">>) @@ (<<"2"," ","c","h","r","o","n","i","c","l","e","s">> :> <<"2","C","H">>) @@ (<<"2"," ","c","h","r","o","n">> :> <<"2","C","H">>) @@
    (<<"e","z","r","a">> :> <<"E","Z","R">>) @@ (<<"e","z","r">> :> <<"E","Z","R">>) @@ (<<"e","z">> :> <<"E","Z","R">>) @@
    (<<"n","e","h","e","m","i","a","h">> :> <<"N","E","H">>) @@ (<<"n","e","h">> :> <<"N","E","H">>) @@ (<<"n","e">> :> <<"N","E","H">>) @@
    (<<"e","s","t","h","e","r">> :> <<"E","S","T">>) @@ (<<"e","s","t">> :> <<"E","S","T">>) @@ (<<"e","s">> :> <<"E","S","T">>) @@
    (<<"j","o","b">> :> <<"J","O","B">>) @@ (<<"j","b">> :> <<"J","O","B">>) @@
    (<<"p","s","a","l","m","s">> :> <<"P","S","A">>) @@ (<<"p","s","a","l","m">> :> <<"P","S","A">>) @@ (<<"p","s","a">> :> <<"P","S","A">>) @@ (<<"p","s">> :> <<"P","S","A">>) @@ (<<"p","s","s">> :> <<"P","S","A">>) @@
    (<<"p","r","o","v","e","r","b","s">> :> <<"P","R","O">>) @@ (<<"p","r","o","v">> :> <<"P","R","O">>) @@ (<<"p","r","o">> :> <<"P","R","O">>) @@ (<<"p","r">> :> <<"P","R","O">>) @@ (<<"p","r","v">> :> <<"P","R","O">>) @@
    (<<"e","c","c","l","e","s","i","a","s","t","e","s">> :> <<"E","C","C">>) @@ (<<"e","c","c","l">> :> <<"E","C","C">>) @@ (<<"e","c","c">> :> <<"E","C","C">>) @@ (<<"e","c">> :> <<"E","C","C">>) @@ (<<"q","o","h">> :> <<"E","C","C">>) @@
    (<<"s","o","n","g","o","f","s","o","l","o","m","o","n">> :> <<"S","N","G">>) @@ (<<"s","o","n","g">> :> <<"S","N","G">>) @@ (<<"s","n","g">> :> <<"S","N","G">>) @@ (<<"s","o">> :> <<"S","N","G">>) @@ (<<"s","o","s">> :> <<"S","N","G">>) @@ (<<"c","a","n","t","i","c","l","e","s">> :> <<"S","N","G">>) @@
    (<<"i","s","a","i","a","h">> :> <<"I","S","A">>) @@ (<<"i","s","a">> :> <<"I","S","A">>) @@ (<<"i","s">> :> <<"I","S","A">>) @@
    (<<"j","e","r","e","m","i","a","h">> :> <<"J","E","R">>) @@ (<<"j","e","r">> :> <<"J","E","R">>) @@ (<<"j","e">> :> <<"J","E","R">>) @@ (<<"j","r">> :> <<"J","E","R">>) @@
    (<<"l","a","m","e","n","t","a","t","i","o","n","s">> :> <<"L","A","M">>) @@ (<<"l","a","m">> :> <<"L","A","M">>) @@ (<<"l","a">> :> <<"L","A","M">>) @@
    (<<"e","z","e","k","i","e","l">> :> <<"E","Z","K">>) @@ (<<"e","z","e","k">> :> <<"E","Z","K">>) @@ (<<"e","z","e">> :> <<"E","Z","K">>) @@ (<<"e","z","k">> :> <<"E","Z","K">>) @@
    (<<"d","a","n","i","e","l">> :> <<"D","A","N">>) @@ (<<"d","a","n">> :> <<"D","A","N">>) @@ (<<"d","a">> :> <<"D","A","N">>) @@ (<<"d","n">> :> <<"D","A","N">>) @@
    (<<"h","o","s","e","a">> :> <<"H","O","S">>) @@ (<<"h","o","s">> :> <<"H","O","S">>) @@ (<<"h","o">> :> <<"H","O","S">>) @@
    (<<"j","o","e","l">> :> <<"J","O","L">>) @@ (<<"j","l">> :> <<"J","O","L">>) @@
    (<<"a","m","o","s">> :> <<"A","M","O">>) @@ (<<"a","m","o">> :> <<"A","M","O">>) @@ (<<"a","m">> :> <<"A","M","O">>) @@
    (<<"o","b","a","d","i","a","h">> :> <<"O","B","A">>) @@ (<<"o","b","a","d">> :> <<"O","B","A">>) @@ (<<"o","b","a">> :> <<"O","B","A">>) @@ (<<"o","b">> :> <<"O","B","A">>) @@
    (<<"j","o","n","a","h">> :> <<"J","O","N">>) @@ (<<"j","o","n">> :> <<"J","O","N">>) @@ (<<"j","n","h">> :> <<"J","O","N">>) @@
    (<<"m","i","c","a","h">> :> <<"M","I","C">>) @@ (<<"m","i","c">> :> <<"M","I","C">>) @@ (<<"m","i">> :> <<"M","I","C">>) @@
    (<<"n","a","h","u","m">> :> <<"N","A","M">>) @@ (<<"n","a","h">> :> <<"N","A","M">>) @@ (<<"n","a">> :> <<"N","A","M">>) @@
    (<<"h","a","b","a","k","k","u","k">> :> <<"H","A","B">>) @@ (<<"h","a","b">> :> <<"H","A","B">>) @@ (<<"h","b">> :> <<"H","A","B">>) @@
    (<<"z","e","p","h","a","n","i","a","h">> :> <<"Z","E","P">>) @@ (<<"z","e","p","h">> :> <<"Z","E","P">>) @@ (<<"z","e","p">> :> <<"Z","E","P">>) @@ (<<"z","p">> :> <<"Z","E","P">>) @@
    (<<"h","a","g","g","a","i">> :> <<"H","A","G">>) @@ (<<"h","a","g">> :> <<"H","A","G">>) @@ (<<"h","g">> :> <<"H","A","G">>) @@
    (<<"z","e","c","h","a","r","i","a","h">> :> <<"Z","E","C">>) @@ (<<"z","e","c","h">> :> <<"Z","E","C">>) @@ (<<"z","e","c">> :> <<"Z","E","C">>) @@ (<<"z","c">> :> <<"Z","E","C">>) @@
    (<<"m","a","l","a","c","h","i">> :> <<"M","A","L">>) @@ (<<"m","a","l">> :> <<"M","A","L">>) @@ (<<"m","l">> :> <<"M","A","L">>) @@
    (<<"m","a","t","t","h","e","w">> :> <<"M","A","T">>) @@ (<<"m","a","t","t">> :> <<"M","A","T">>) @@ (<<"m","a","t">> :> <<"M","A","T">>) @@ (<<"m","t">> :> <<"M","A","T">>) @@
    (<<"m","a","r","k">> :> <<"M","R","K">>) @@ (<<"m","r","k">> :> <<"M","R","K">>) @@ (<<"m","k">> :> <<"M","R","K">>) @@ (<<"m","a","r">> :> <<"M","R","K">>) @@
    (<<"l","u","k","e">> :> <<"L","U","K">>) @@ (<<"l","u","k">> :> <<"L","U","K">>) @@ (<<"l","k">> :> <<"L","U","K">>) @@ (<<"l","u">> :> <<"L","U","K">>) @@
    (<<"j","o","h","n">> :> <<"J","H","N">>) @@ (<<"j","h","n">> :> <<"J","H","N">>) @@ (<<"j","n">> :> <<"J","H","N">>) @@ (<<"j","o","h">> :> <<"J","H","N">>) @@
    (<<"a","c","t","s">> :> <<"A","C","T">>) @@ (<<"a","c","t">> :> <<"A","C","T">>) @@ (<<"a","c">> :> <<"A","C","T">>) @@
    (<<"r","o","m","a","n","s">> :> <<"R","O","M">>) @@ (<<"r","o","m">> :> <<"R","O","M">>) @@ (<<"r","o">> :> <<"R","O","M">>) @@ (<<"r","m">> :> <<"R","O","M">>) @@
    (<<"1","c","o","r","i","n","t","h","i","a","n","s">> :> <<"1","C","O">>) @@ (<<"1","c","o","r">> :> <<"1","C","O">>) @@ (<<"1","c","o">> :> <<"1","C","O">>) @@ (<<"1","c">> :> <<"1","C","O">>) @@ (<<"1"," ","c","o","r","i","n","t","h","i","a","n","s">> :> <<"1","C","O">>) @@ (<<"1"," ","c","o","r">> :> <<"1","C","O">>) @@
    (<<"2","c","o","r","i","n","t","h","i","a","n","s">> :> <<"2","C","O">>) @@ (<<"2","c","o","r">> :> <<"2","C","O">>) @@ (<<"2","c","o">> :> <<"2","C","O">>) @@ (<<"2","c">> :> <<"2","C","O">>) @@ (<<"2"," ","c","o","r","i","n","t","h","i","a","n","s">> :> <<"2","C","O">>) @@ (<<"2"," ","c","o","r">> :> <<"2","C","O">>) @@
    (<<"g","a","l","a","t","i","a","n","s">> :> <<"G","A","L">>) @@ (<<"g","a","l">> :> <<"G","A","L">>) @@ (<<"g","a">> :> <<"G","A","L">>) @@
    (<<"e","p","h","e","s","i","a","n","s">> :> <<"E","P","H">>) @@ (<<"e","p","h">> :> <<"E","P","H">>) @@ (<<"e","p">> :> <<"E","P","H">>) @@
    (<<"p","h","i","l","i","p","p","i","a","n","s">> :> <<"P","H","P">>) @@ (<<"p","h","i","l">> :> <<"P","H","P">>) @@ (<<"p","h","p">> :> <<"P","H","P">>) @@ (<<"p","p">> :> <<"P","H","P">>) @@
    (<<"c","o","l","o","s","s","i","a","n","s">> :> <<"C","O","L">>) @@ (<<"c","o","l">> :> <<"C","O","L">>) @@ (<<"c","o">> :> <<"C","O","L">>) @@
    (<<"1","t","h","e","s","s","a","l","o","n","i","a","n","s">> :> <<"1","T","H">>) @@ (<<"1","t","h","e","s","s">> :> <<"1","T","H">>) @@ (<<"1","t","h">> :> <<"1","T","H">>) @@ (<<"1","t">> :> <<"1","T","H">>) @@ (<<"1"," ","t","h","e","s","s","a","l","o","n","i","a","n","s">> :> <<"1","T","H">>) @@ (<<"1"," ","t","h","e","s","s">> :> <<"1","T","H">>) @@
    (<<"2","t","h","e","s","s","a","l","o","n","i","a","n","s">> :> <<"2","T","H">>) @@ (<<"2","t","h","e","s","s">> :> <<"2","T","H">>) @@ (<<"2","t","h">> :> <<"2","T","H">>) @@ (<<"2","t">> :> <<"2","T","H">>) @@ (<<"2"," ","t","h","e","s","s","a","l","o","n","i","a","n","s">> :> <<"2","T","H">>) @@ (<<"2"," ","t","h","e","s","s">> :> <<"2","T","H">>) @@
    (<<"1","t","i","m","o","t","h","y">> :> <<"1","T","I">>) @@ (<<"1","t","i","m">> :> <<"1","T","I">>) @@ (<<"1","t","i">> :> <<"1","T","I">>) @@ (<<"1"," ","t","i","m","o","t","h","y">> :> <<"1","T","I">>) @@ (<<"1"," ","t","i","m">> :> <<"1","T","I">>) @@
    (<<"2","t","i","m","o","t","h","y">> :> <<"2","T","I">>) @@ (<<"2","t","i","m">> :> <<"2","T","I">>) @@ (<<"2","t","i">> :> <<"2","T","I">>) @@ (<<"2"," ","t","i","m","o","t","h","y">> :> <<"2","T","I">>) @@ (<<"2"," ","t","i","m">> :> <<"2","T","I">>) @@
    (<<"t","i","t","u","s">> :> <<"T","I","T">>) @@ (<<"t","i","t">> :> <<"T","I","T">>) @@ (<<"t","i">> :> <<"T","I","T">>) @@
    (<<"p","h","i","l","e","m","o","n">> :> <<"P","H","M">>) @@ (<<"p","h","l","m">> :> <<"P","H","M">>) @@ (<<"p","h","m">> :> <<"P","H","M">>) @@ (<<"p","m">> :> <<"P","H","M">>) @@
    (<<"h","e","b","r","e","w","s">> :> <<"H","E","B">>) @@ (<<"h","e","b">> :> <<"H","E","B">>) @@ (<<"h","e">> :> <<"H","E","B">>) @@
    (<<"j","a","m","e","s">> :> <<"J","A","S">>) @@ (<<"j","a","s">> :> <<"J","A","S">>) @@ (<<"j","m">> :> <<"J","A","S">>) @@ (<<"j","a">> :> <<"J","A","S">>) @@
    (<<"1","p","e","t","e","r">> :> <<"1","P","E">>) @@ (<<"1","p","e","t">> :> <<"1","P","E">>) @@ (<<"1","p","e">> :> <<"1","P","E">>) @@ (<<"1","p">> :> <<"1","P","E">>) @@ (<<"1"," ","p","e","t","e","r">> :> <<"1","P","E">>) @@ (<<"1"," ","p","e","t">> :> <<"1","P","E">>) @@
    (<<"2","p","e","t","e","r">> :> <<"2","P","E">>) @@ (<<"2","p","e","t">> :> <<"2","P","E">>) @@ (<<"2","p","e">> :> <<"2","P","E">>) @@ (<<"2","p">> :> <<"2","P","E">>) @@ (<<"2"," ","p","e","t","e","r">> :> <<"2","P","E">>) @@ (<<"2"," ","p","e","t">> :> <<"2","P","E">>) @@
    (<<"1","j","o","h","n">> :> <<"1","J","N">>) @@ (<<"1","j","n">> :> <<"1","J","N">>) @@ (<<"1","j">> :> <<"1","J","N">>) @@ (<<"1"," ","j","o","h","n">> :> <<"1","J","N">>) @@
    (<<"2","j","o","h","n">> :> <<"2","J","N">>) @@ (<<"2","j","n">> :> <<"2","J","N">>) @@ (<<"2","j">> :> <<"2","J","N">>) @@ (<<"2"," ","j","o","h","n">> :> <<"2","J","N">>) @@
    (<<"3","j","o","h","n">> :> <<"3","J","N">>) @@ (<<"3","j","n">> :> <<"3","J","N">>) @@ (<<"3","j">> :> <<"3","J","N">>) @@ (<<"3"," ","j","o","h","n">> :> <<"3","J","N">>) @@
    (<<"j","u","d","e">> :> <<"J","U","D">>) @@ (<<"j","u","d">> :> <<"J","U","D">>) @@ (<<"j","d">> :> <<"J","U","D">>) @@
    (<<"r","e","v","e","l","a","t","i","o","n">> :> <<"R","E","V">>) @@ (<<"r","e","v">> :> <<"R","E","V">>) @@ (<<"r","e">> :> <<"R","E","V">>) @@ (<<"r","v">> :> <<"R","E","V">>)

BOOK_NAMES ==
    (<<"G","E","N">> :> <<"G","e","n","e","s","i","s">>) @@ (<<"E","X","O">> :> <<"E","x","o","d","u","s">>) @@ (<<"L","E","V">> :> <<"L","e","v","i","t","i","c","u","s">>) @@ (<<"N","U","M">> :> <<"N","u","m","b","e","r","s">>) @@ (<<"D","E","U">> :> <<"D","e","u","t","e","r","o","n","o","m","y">>) @@
    (<<"J","O","S">> :> <<"J","o","s","h","u","a">>) @@ (<<"J","D","G">> :> <<"J","u","d","g","e","s">>) @@ (<<"R","U","T">> :> <<"R","u","t","h">>) @@ (<<"1","S","A">> :> <<"1"," ","S","a","m","u","e","l">>) @@ (<<"2","S","A">> :> <<"2"," ","S","a","m","u","e","l">>) @@
    (<<"1","K","I">> :> <<"1"," ","K","i","n","g","s">>) @@ (<<"2","K","I">> :> <<"2"," ","K","i","n","g","s">>) @@ (<<"1","C","H">> :> <<"1"," ","C","h","r","o","n","i","c","l","e","s">>) @@ (<<"2","C","H">> :> <<"2"," ","C","h","r","o","n","i","c","l","e","s">>) @@
    (<<"E","Z","R">> :> <<"E","z","r","a">>) @@ (<<"N","E","H">> :> <<"N","e","h","e","m","i","a","h">>) @@ (<<"E","S","T">> :> <<"E","s","t","h","e","r">>) @@ (<<"J","O","B">> :> <<"J","o","b">>) @@ (<<"P","S","A">> :> <<"P","s","a","l","m","s">>) @@
    (<<"P","R","O">> :> <<"P","r","o","v","e","r","b","s">>) @@ (<<"E","C","C">> :> <<"E","c","c","l","e","s","i","a","s","t","e","s">>) @@ (<<"S","N","G">> :> <<"S","o","n","g"," ","o","f"," ","S","o","n","g","s">>) @@ (<<"I","S","A">> :> <<"I","s","a","i","a","h">>) @@
    (<<"J","E","R">> :> <<"J","e","r","e","m","i","a","h">>) @@ (<<"L","A","M">> :> <<"L","a","m","e","n","t","a","t","i","o","n","s">>) @@ (<<"E","Z","K">> :> <<"E","z","e","k","i","e","l">>) @@ (<<"D","A","N">> :> <<"D","a","n","i","e","l">>) @@
    (<<"H","O","S">> :> <<"H","o","s","e","a">>) @@ (<<"J","O","L">> :> <<"J","o","e","l">>) @@ (<<"A","M","O">> :> <<"A","m","o","s">>) @@ (<<"O","B","A">> :> <<"O","b","a","d","i","a","h">>) @@ (<<"J","O","N">> :> <<"J","o","n","a","h">>) @@
    (<<"M","I","C">> :> <<"M","i","c","a","h">>) @@ (<<"N","A","M">> :> <<"N","a","h","u","m">>) @@ (<<"H","A","B">> :> <<"H","a","b","a","k","k","u","k">>) @@ (<<"Z","E","P">> :> <<"Z","e","p","h","a","n","i","a","h">>) @@
    (<<"H","A","G">> :> <<"H","a","g","g","a","i">>) @@ (<<"Z","E","C">> :> <<"Z","e","c","h","a","r","i","a","h">>) @@ (<<"M","A","L">> :> <<"M","a","l","a","c","h","i">>) @@
    (<<"M","A","T">> :> <<"M","a","t","t","h","e","w">>) @@ (<<"M","R","K">> :> <<"M","a","r","k">>) @@ (<<"L","U","K">> :> <<"L","u","k","e">>) @@ (<<"J","H","N">> :> <<"J","o","h","n">>) @@ (<<"A","C","T">> :> <<"A","c","t","s">>) @@
    (<<"R","O","M">> :> <<"R","o","m","a","n","s">>) @@ (<<"1","C","O">> :> <<"1"," ","C","o","r","i","n","t","h","i","a","n","s">>) @@ (<<"2","C","O">> :> <<"2"," ","C","o","r","i","n","t","h","i","a","n","s">>) @@ (<<"G","A","L">> :> <<"G","a","l","a","t","i","a","n","s">>) @@
    (<<"E","P","H">> :> <<"E","p","h","e","s","i","a","n","s">>) @@ (<<"P","H","P">> :> <<"P","h","i","l","i","p","p","i","a","n","s">>) @@ (<<"C","O","L">> :> <<"C","o","l","o","s","s","i","a","n","s">>) @@ (<<"1","T","H">> :> <<"1"," ","T","h","e","s","s","a","l","o","n","i","a","n","s">>) @@
    (<<"2","T","H">> :> <<"2"," ","T","h","e","s","s","a","l","o","n","i","a","n","s">>) @@ (<<"1","T","I">> :> <<"1"," ","T","i","m","o","t","h","y">>) @@ (<<"2","T","I">> :> <<"2"," ","T","i","m","o","t","h","y">>) @@ (<<"T","I","T">> :> <<"T","i","t","u","s">>) @@
    (<<"P","H","M">> :> <<"P","h","i","l","e","m","o","n">>) @@ (<<"H","E","B">> :> <<"H","e","b","r","e","w","s">>) @@ (<<"J","A","S">> :> <<"J","a","m","e","s">>) @@ (<<"1","P","E">> :> <<"1"," ","P","e","t","e","r">>) @@ (<<"2","P","E">> :> <<"2"," ","P","e","t","e","r">>) @@
    (<<"1","J","N">> :> <<"1"," ","J","o","h","n">>) @@ (<<"2","J","N">> :> <<"2"," ","J","o","h","n">>) @@ (<<"3","J","N">> :> <<"3"," ","J","o","h","n">>) @@ (<<"J","U","D">> :> <<"J","u","d","e">>) @@ (<<"R","E","V">> :> <<"R","e","v","e","l","a","t","i","o","n">>)

ReferenceParseError == "ReferenceParseError"

VerseReference(book_id, chapter, verse) ==
    [type |-> "VerseReference", book_id |-> book_id, chapter |-> chapter, verse |-> verse]

VerseRange(book_id, chapter, start_verse, end_verse) ==
    [type |-> "VerseRange", book_id |-> book_id, chapter |-> chapter,
     start_verse |-> start_verse, end_verse |-> end_verse]

(* Mutant: a lookup without the membership test raises KeyError on a miss. *)
normalize_book_name_KeyError(book_name) ==
    LET normalized == remove_spaces(strip(lower(book_name)))
    IN  IF normalized \in DOMAIN BOOK_MAPPINGS THEN Return(BOOK_MAPPINGS[normalized])
        ELSE Raise("KeyError", "Unknown book name")

normalize_book_name(book_name) ==
    LET normalized == remove_spaces(strip(lower(book_name)))
        book_with_spaces == strip(lower(book_name))
    IN  IF normalized \in DOMAIN BOOK_MAPPINGS THEN Return(BOOK_MAPPINGS[normalized])
        ELSE IF book_with_spaces \in DOMAIN BOOK_MAPPINGS
             THEN Return(BOOK_MAPPINGS[book_with_spaces])
        ELSE Raise(ReferenceParseError, "Unknown book name")

NoMatch == [matched |-> FALSE]

(* \s+(\d+):(\d+)(?:-(\d+))?$ against the whole of t.  The character classes *)
(* of adjacent parts are disjoint, so the greedy scan is the only match.  An *)
(* unmatched optional group (None) is the empty string: both are falsy.      *)
TrailingLocator(t) ==
    LET w == RunLen(t, 1, Whitespace)
        c == RunLen(t, w + 1, Digits)
        colon == w + c + 1
        v == RunLen(t, colon + 1, Digits)
        dash == colon + v + 1
        e == RunLen(t, dash + 1, Digits)
        AtEnd(i) == i = Len(t) + 1 \/ (i = Len(t) /\ t[i] = "\n")
        groups(end_verse_str) ==
            [matched |-> TRUE,
             chapter_str |-> SubSeq(t, w + 1, w + c),
             start_verse_str |-> SubSeq(t, colon + 1, colon + v),
             end_verse_str |-> end_verse_str]
    IN  IF ~(w >= 1 /\ c >= 1 /\ colon <= Len(t) /\ t[colon] = ":" /\ v >= 1)
        THEN NoMatch
        ELSE IF dash <= Len(t) /\ t[dash] = "-" /\ e >= 1 /\ AtEnd(dash + e + 1)
             THEN groups(SubSeq(t, dash + 1, dash + e))
        ELSE IF AtEnd(dash) THEN groups(<<>>)
        ELSE NoMatch

(* Mutant: the book group is (\S+): a book name may not hold whitespace. *)
re_match_NoSpaceInBook(s) ==
    LET ks == {k \in 1..Len(s) :
                  /\ \A i \in 1..k : s[i] \notin Whitespace
                  /\ TrailingLocator(SubSeq(s, k + 1, Len(s))).matched}
    IN  IF ks = {} THEN NoMatch
        ELSE LET k == Min(ks)
                 g == TrailingLocator(SubSeq(s, k + 1, Len(s)))
             IN  [matched |-> TRUE, book_name |-> SubSeq(s, 1, k),
                  chapter_str |-> g.chapter_str,
                  start_verse_str |-> g.start_verse_str,
                  end_verse_str |-> g.end_verse_str]

(* re.match(r'^(.+?)\s+(\d+):(\d+)(?:-(\d+))?$', s): the lazy first group is *)
(* the shortest non-empty prefix without a newline that the rest can follow. *)
re_match(s) ==
    LET ks == {k \in 1..Len(s) :
                  /\ \A i \in 1..k : s[i] # "\n"
                  /\ TrailingLocator(SubSeq(s, k + 1, Len(s))).matched}
    IN  IF ks = {} THEN NoMatch
        ELSE LET k == Min(ks)
                 g == TrailingLocator(SubSeq(s, k + 1, Len(s)))
             IN  [matched |-> TRUE, book_name |-> SubSeq(s, 1, k),
                  chapter_str |-> g.chapter_str,
                  start_verse_str |-> g.start_verse_str,
                  end_verse_str |-> g.end_verse_str]

(* except ValueError as e: raise ReferenceParseError(...) *)
ExceptValueError(outcome) ==
    IF outcome.raises = "ValueError"
    THEN Raise(ReferenceParseError, "Invalid number in reference")
    ELSE outcome

(* Mutant: the comparison of the range check is inverted. *)
EndBeforeStart_Inverted(end_verse, start_verse) == end_verse > start_verse

EndBeforeStart(end_verse, start_verse) == end_verse < start_verse

parse_reference(reference) ==
    IF reference = <<>> \/ strip(reference) = <<>>
    THEN Raise(ReferenceParseError, "Empty reference")
    ELSE
    LET match == re_match(strip(reference))
    IN  IF ~match.matched
        THEN Raise(ReferenceParseError, "Invalid reference format")
        ELSE
        LET book == normalize_book_name(match.book_name)
            chapter == int(match.chapter_str)
            start_verse == int(match.start_verse_str)
            end_verse == int(match.end_verse_str)
        IN  ExceptValueError(
            IF book.raises # "none" THEN book
            ELSE IF chapter < 1
                 THEN Raise(ReferenceParseError, "Invalid chapter number")
            ELSE IF start_verse < 1
                 THEN Raise(ReferenceParseError, "Invalid verse number")
            ELSE IF match.end_verse_str # <<>>
                 THEN IF EndBeforeStart(end_verse, start_verse)
                      THEN Raise(ReferenceParseError,
                                 "End verse cannot be before start verse")
                      ELSE Return(VerseRange(book.value, chapter, start_verse, end_verse))
            ELSE Return(VerseReference(book.value, chapter, start_verse)))

get_book_display_name(book_id) ==
    IF book_id \in DOMAIN BOOK_NAMES THEN BOOK_NAMES[book_id] ELSE book_id

format_reference(book_id, chapter, verse) ==
    get_book_display_name(book_id) \o <<" ">> \o str(chapter) \o <<":">> \o str(verse)

(***************************************************************************)
(* Book registry round trips: a locator of the registry is formatted and   *)
(* parsed back; an alias is normalized, shown by its display name and      *)
(* normalized again.                                                       *)
(***************************************************************************)
BookCodes == DOMAIN BOOK_NAMES

Aliases == DOMAIN BOOK_MAPPINGS

None == [raises |-> "none", value |-> "None"]

InitRef ==
    /\ pc = "start"
    /\ arg \in [kind : {"locator"}, book_id : BookCodes,
                chapter : 1..MaxChapter, verse : 1..MaxVerse]
               \cup [kind : {"alias"}, alias : Aliases]
    /\ mid = None
    /\ text = <<>>
    /\ out = None
    /\ db = None

FormatReference ==
    /\ pc = "start"
    /\ arg.kind = "locator"
    /\ text' = format_reference(arg.book_id, arg.chapter, arg.verse)
    /\ pc' = "formatted"
    /\ UNCHANGED <<arg, mid, out, db>>

ParseFormatted ==
    /\ pc = "formatted"
    /\ out' = parse_reference(text)
    /\ pc' = "parsed"
    /\ UNCHANGED <<arg, mid, text, db>>

NormalizeAlias ==
    /\ pc = "start"
    /\ arg.kind = "alias"
    /\ mid' = normalize_book_name(arg.alias)
    /\ pc' = "normalized"
    /\ UNCHANGED <<arg, text, out, db>>

DisplayName ==
    /\ pc = "normalized"
    /\ mid.raises = "none"
    /\ text' = get_book_display_name(mid.value)
    /\ pc' = "displayed"
    /\ UNCHANGED <<arg, mid, out, db>>

NormalizeDisplayName ==
    /\ pc = "displayed"
    /\ out' = normalize_book_name(text)
    /\ pc' = "renormalized"
    /\ UNCHANGED <<arg, mid, text, db>>

NextRef ==
    \/ FormatReference
    \/ ParseFormatted
    \/ NormalizeAlias
    \/ DisplayName
    \/ NormalizeDisplayName

SpecRef == InitRef /\ [][NextRef]_vars

\* C1: every locator of the registry, formatted as "<display name> <chapter>:<verse>"
\* and parsed back, is a VerseReference with the same book code, chapter and verse.
C1_FormatParseRoundTrip ==
    (pc = "parsed" /\ arg.kind = "locator") =>
        out = Return(VerseReference(arg.book_id, arg.chapter, arg.verse))

\* C2: for every alias of the alias table, normalizing the display name of the code
\* the alias normalizes to gives that code again.
C2_AliasIdempotence ==
    (pc = "renormalized" /\ arg.kind = "alias") => out = mid

(***************************************************************************)
(* parse_reference on reference strings.  A reference is put together from *)
(* a book name, a gap, a chapter, a separator, a verse and a tail, each    *)
(* drawn from well-formed and malformed choices; arg keeps the parts.      *)
(***************************************************************************)
BookParts ==
    {<<>>, <<"j", "n">>, <<"J", "o", "h", "n">>, <<"1", " ", "C", "o", "r">>,
     <<"2", " ", "T", "i", "m", "o", "t", "h", "y">>, <<" ", "1", " ", " ", "j">>,
     <<"x">>, <<"3">>, <<"j", "n", " ", "1", ":", "2">>, <<"j", "\n", "n">>}

GapParts == {<<>>, <<" ">>, <<" ", " ">>, <<"\t">>, <<"\n">>}

NumberParts == {str(n) : n \in 0..MaxNumber} \cup {<<>>, <<"0", "3">>, <<"1", "2">>}

SeparatorParts == {<<":">>, <<>>, <<"-">>}

TailParts ==
    {<<"-">> \o str(n) : n \in 0..MaxNumber}
    \cup {<<>>, <<" ">>, <<"-">>, <<"-", "x">>, <<"-", "1", "-", "2">>, <<"-", "0", "2">>}

Reference(p) == p.book \o p.gap \o p.chapter \o p.separator \o p.verse \o p.tail

InitParse ==
    /\ pc = "start"
    /\ arg \in [kind : {"reference"}, book : BookParts, gap : GapParts,
                chapter : NumberParts, separator : SeparatorParts,
                verse : NumberParts, tail : TailParts]
    /\ text = Reference(arg)
    /\ mid = None
    /\ out = None
    /\ db = None

(* parse_reference(text); mid keeps the groups of the match (line 205). *)
ParseReference ==
    /\ pc = "start"
    /\ arg.kind = "reference"
    /\ mid' = (IF strip(text) = <<>> THEN NoMatch ELSE re_match(strip(text)))
    /\ out' = parse_reference(text)
    /\ pc' = "parsed"
    /\ UNCHANGED <<arg, text, db>>

NextParse == ParseReference

SpecParse == InitParse /\ [][NextParse]_vars

IsDigits(s) == s # <<>> /\ \A i \in 1..Len(s) : s[i] \in Digits

IsRangeTail(t) == Len(t) >= 2 /\ t[1] = "-" /\ IsDigits(Tail(t))

(* The parts have the form B + whitespace + c + ":" + v, optionally + "-" + e, *)
(* with B non-empty and the whitespace the whole gap between B and c.         *)
WellFormed(p) ==
    /\ p.book # <<>>
    /\ strip(p.book) = p.book
    /\ p.gap # <<>>
    /\ \A i \in 1..Len(p.gap) : p.gap[i] \in Whitespace
    /\ IsDigits(p.chapter)
    /\ p.separator = <<":">>
    /\ IsDigits(p.verse)
    /\ (p.tail = <<>> \/ IsRangeTail(p.tail))

HasNewline(s) == \E i \in 1..Len(s) : s[i] = "\n"

(* s ends in whitespace, digits, ":", digits and optionally "-", digits, *)
(* after at least one more character.                                    *)
EndsInLocator(s) ==
    \E i \in 2..Len(s) : \E j \in (i + 2)..Len(s) :
        /\ s[i] \in Whitespace
        /\ IsDigits(SubSeq(s, i + 1, j - 1))
        /\ s[j] = ":"
        /\ \/ IsDigits(SubSeq(s, j + 1, Len(s)))
           \/ \E d \in (j + 2)..Len(s) :
                 /\ IsDigits(SubSeq(s, j + 1, d - 1))
                 /\ s[d] = "-"
                 /\ IsDigits(SubSeq(s, d + 1, Len(s)))

KnownBook(b) == remove_spaces(lower(b)) \in Aliases \/ lower(b) \in Aliases

Accepted == out.raises = "none" /\ out.value.type \in {"VerseReference", "VerseRange"}

Rejected == out.raises = ReferenceParseError

\* C3: every VerseRange that parse_reference returns has chapter >= 1, start_verse >= 1
\* and start_verse <= end_verse, and every reference whose end verse is smaller than
\* its start verse is rejected with ReferenceParseError.
C3_RangeInvariant ==
    pc = "parsed" =>
        /\ (out.raises = "none" /\ out.value.type = "VerseRange") =>
              /\ out.value.chapter >= 1
              /\ out.value.start_verse >= 1
              /\ out.value.start_verse <= out.value.end_verse
        /\ (WellFormed(arg) /\ IsRangeTail(arg.tail)
              /\ int(Tail(arg.tail)) < int(arg.verse)) => Rejected

C3_Witness ==
    /\ pc = "parsed"
    /\ WellFormed(arg)
    /\ arg.book = <<"J", "o", "h", "n">>
    /\ IsRangeTail(arg.tail)
    /\ int(Tail(arg.tail)) < int(arg.verse)
    /\ out = Raise(ReferenceParseError, "End verse cannot be before start verse")

\* C4: parse_reference either returns a VerseReference or a VerseRange or raises
\* ReferenceParseError, never another exception; it raises ReferenceParseError for
\* empty or whitespace-only input, for input that does not end in a chapter:verse
\* pattern, for an unknown book name, and for chapter 0 or verse 0.
C4_SingleFailureKind ==
    pc = "parsed" =>
        /\ Accepted \/ Rejected
        /\ strip(text) = <<>> => Rejected
        /\ ~EndsInLocator(strip(text)) => Rejected
        /\ (WellFormed(arg) /\ ~KnownBook(arg.book)) => Rejected
        /\ (WellFormed(arg) /\ (int(arg.chapter) = 0 \/ int(arg.verse) = 0)) => Rejected

C4_Witness ==
    /\ pc = "parsed"
    /\ WellFormed(arg)
    /\ arg.book = <<"x">>
    /\ int(arg.chapter) >= 1
    /\ int(arg.verse) >= 1
    /\ out = Raise(ReferenceParseError, "Unknown book name")

\* C5: for a reference B + whitespace + c + ":" + v, optionally + "-" + e, the book
\* name captured by the match is exactly B, also when B holds digits, spaces or a
\* chapter:verse run of its own (a B with a newline has no match and is rejected, as
\* normalize(B) is), and the result is what normalize(B), int(c), int(v) and int(e)
\* give: a VerseReference, a VerseRange, or a rejection when the book is unknown, a
\* number is below 1 or e < v.
C5_BookNameCapture ==
    (pc = "parsed" /\ WellFormed(arg)) =>
        LET book == normalize_book_name(arg.book)
            c == int(arg.chapter)
            v == int(arg.verse)
            e == int(Tail(arg.tail))
            is_range == arg.tail # <<>>
        IN  /\ mid.matched <=> ~HasNewline(arg.book)
            /\ mid.matched =>
                  /\ mid.book_name = arg.book
                  /\ mid.chapter_str = arg.chapter
                  /\ mid.start_verse_str = arg.verse
                  /\ mid.end_verse_str = (IF is_range THEN Tail(arg.tail) ELSE <<>>)
            /\ IF book.raises = "none" /\ c >= 1 /\ v >= 1 /\ (is_range => e >= v)
               THEN out = Return(IF is_range THEN VerseRange(book.value, c, v, e)
                                 ELSE VerseReference(book.value, c, v))
               ELSE Rejected

C5_Witness ==
    /\ pc = "parsed"
    /\ WellFormed(arg)
    /\ arg.book = <<"1", " ", "C", "o", "r">>
    /\ mid.matched
    /\ mid.book_name = arg.book
    /\ out.raises = "none"
    /\ out.value.type = "VerseRange"
    /\ out.value.book_id = <<"1", "C", "O">>

(***************************************************************************)
(* validation/validators.py: sanitize_search_query                         *)
(***************************************************************************)
Letters == DOMAIN UpperToLower \cup {UpperToLower[c] : c \in DOMAIN UpperToLower}

(* \w *)
WordChars == Letters \cup Digits \cup {"_"}

(* [&;|<>=+*\\] *)
DangerousChars == {"&", ";", "|", "<", ">", "=", "+", "*", "\\"}

(* the punctuation of the whitelist pattern, the double quote included *)
SafePunctuation == {"-", ".", ",", "!", "?", ":", ";", "(", ")", "'", "\""}

(* The whitelist pattern replaces what is outside this class: \w, \s, the *)
(* punctuation and the letters of ANDORNOT.                               *)
WhitelistChars ==
    WordChars \cup Whitespace \cup SafePunctuation \cup {"A", "N", "D", "O", "R", "T"}

QUOTED_PHRASE == <<"Q", "U", "O", "T", "E", "D", "_", "P", "H", "R", "A", "S", "E">>

(* Position of the first c in s at or after i, or 0. *)
RECURSIVE Find(_, _, _)
Find(s, c, i) == IF i > Len(s) THEN 0 ELSE IF s[i] = c THEN i ELSE Find(s, c, i + 1)

(* re.findall of a quote, any non-quotes, a quote: the phrases between *)
(* successive pairs of quotes                                          *)
RECURSIVE findall_quoted(_)
findall_quoted(s) ==
    LET open == Find(s, "\"", 1)
        close == IF open = 0 THEN 0 ELSE Find(s, "\"", open + 1)
    IN  IF close = 0 THEN <<>>
        ELSE <<SubSeq(s, open + 1, close - 1)>> \o findall_quoted(SubSeq(s, close + 1, Len(s)))

(* re.sub of every quoted phrase, quotes included, by repl *)
RECURSIVE sub_quoted(_, _)
sub_quoted(s, repl) ==
    LET open == Find(s, "\"", 1)
        close == IF open = 0 THEN 0 ELSE Find(s, "\"", open + 1)
    IN  IF close = 0 THEN s
        ELSE SubSeq(s, 1, open - 1) \o repl \o sub_quoted(SubSeq(s, close + 1, Len(s)), repl)

(* re.sub of a one-character class by ' ' *)
RECURSIVE sub_chars(_, _)
sub_chars(s, class) ==
    IF s = <<>> THEN <<>>
    ELSE <<IF Head(s) \in class THEN " " ELSE Head(s)>> \o sub_chars(Tail(s), class)

(* Mutant: the first pass is left out. *)
remove_dangerous_Skipped(s) == s

(* re.sub(r'[&;|<>=+*\\]', ' ', s) *)
remove_dangerous(s) == sub_chars(s, DangerousChars)

(* Mutant: the whitelist class is written a-z0-9 and keeps no capital letter. *)
RECURSIVE keep_whitelist_NoCapitals(_)
keep_whitelist_NoCapitals(s) ==
    IF s = <<>> THEN <<>>
    ELSE <<IF Head(s) \in WhitelistChars \ DOMAIN UpperToLower THEN Head(s) ELSE " ">>
         \o keep_whitelist_NoCapitals(Tail(s))

(* re.sub of every character outside the whitelist class by ' ' *)
RECURSIVE keep_whitelist(_)
keep_whitelist(s) ==
    IF s = <<>> THEN <<>>
    ELSE <<IF Head(s) \in WhitelistChars THEN Head(s) ELSE " ">> \o keep_whitelist(Tail(s))

clean(s) == keep_whitelist(remove_dangerous(s))

(* s.replace(old, new, 1) *)
replace_first(s, old, new) ==
    LET at == {i \in 1..(Len(s) - Len(old) + 1) : SubSeq(s, i, i + Len(old) - 1) = old}
    IN  IF at = {} THEN s
        ELSE SubSeq(s, 1, Min(at) - 1) \o new \o SubSeq(s, Min(at) + Len(old), Len(s))

(* Mutant: a phrase is put back without its quotes. *)
RECURSIVE restore_phrases_Unquoted(_, _)
restore_phrases_Unquoted(s, phrases) ==
    IF phrases = <<>> THEN s
    ELSE restore_phrases_Unquoted(
             replace_first(s, QUOTED_PHRASE, clean(Head(phrases))), Tail(phrases))

(* for phrase in quoted_phrases: the first placeholder is replaced by the *)
(* cleaned phrase in quotes                                              *)
RECURSIVE restore_phrases(_, _)
restore_phrases(s, phrases) ==
    IF phrases = <<>> THEN s
    ELSE restore_phrases(
             replace_first(s, QUOTED_PHRASE, <<"\"">> \o clean(Head(phrases)) \o <<"\"">>),
             Tail(phrases))

(* Mutant: only runs of spaces are collapsed (r' +'). *)
RECURSIVE collapse_whitespace_SpacesOnly(_)
collapse_whitespace_SpacesOnly(s) ==
    IF s = <<>> THEN <<>>
    ELSE IF Head(s) = " "
         THEN <<" ">> \o collapse_whitespace_SpacesOnly(
                              SubSeq(s, RunLen(s, 1, {" "}) + 1, Len(s)))
    ELSE <<Head(s)>> \o collapse_whitespace_SpacesOnly(Tail(s))

(* re.sub(r'\s+', ' ', s) *)
RECURSIVE collapse_whitespace(_)
collapse_whitespace(s) ==
    IF s = <<>> THEN <<>>
    ELSE IF Head(s) \in Whitespace
         THEN <<" ">> \o collapse_whitespace(SubSeq(s, RunLen(s, 1, Whitespace) + 1, Len(s)))
    ELSE <<Head(s)>> \o collapse_whitespace(Tail(s))

sanitize_search_query(query) ==
    IF query = <<>> \/ strip(query) = <<>> THEN <<>>
    ELSE
    LET stripped == strip(query)
        quoted_phrases == findall_quoted(stripped)
        query_without_quotes == clean(sub_quoted(stripped, QUOTED_PHRASE))
        restored == restore_phrases(query_without_quotes, quoted_phrases)
    IN  strip(collapse_whitespace(restored))

(***************************************************************************)
(* sanitize_search_query on queries put together from up to MaxTokens      *)
(* tokens: a word, a space, a tab, a quote, the semicolon (removed by the   *)
(* first pass, kept by the whitelist), characters that both passes remove, *)
(* an apostrophe and the placeholder text itself.                          *)
(***************************************************************************)
QueryTokens ==
    {<<"a">>, <<" ">>, <<"\t">>, <<"\"">>, <<";">>, <<"&", "<", ">", "@">>, <<"'">>,
     QUOTED_PHRASE}

RECURSIVE Concat(_)
Concat(tokens) == IF tokens = <<>> THEN <<>> ELSE Head(tokens) \o Concat(Tail(tokens))

(* The queries of the repository's sanitizer tests. *)
TestQueries ==
    {<<"l", "o", "v", "e">>,
     <<" ", " ", "l", "o", "v", "e", " ", " ">>,
     <<>>,
     <<" ", " ", " ">>,
     <<"\"", "l", "o", "v", "e", " ", "o", "n", "e", " ", "a", "n", "o", "t",
       "h", "e", "r", "\"">>,
     <<"l", "o", "v", "e", " ", "\"", "o", "n", "e", " ", "a", "n", "o", "t",
       "h", "e", "r", "\"", " ", "p", "e", "a", "c", "e">>,
     <<"l", "o", "v", "e", " ", "A", "N", "D", " ", "p", "e", "a", "c", "e">>,
     <<"l", "o", "v", "e", " ", "O", "R", " ", "j", "o", "y">>,
     <<"l", "o", "v", "e", " ", "N", "O", "T", " ", "h", "a", "t", "e">>,
     <<"l", "o", "v", "e", ";", " ", "D", "R", "O", "P", " ", "T", "A", "B",
       "L", "E", " ", "v", "e", "r", "s", "e", "s", ";">>,
     <<"l", "o", "v", "e", "'", " ", "O", "R", " ", "1", "=", "1", "-", "-">>,
     <<"l", "o", "v", "e", " ", "N", "E", "A", "R", "/", "5", " ", "p", "e",
       "a", "c", "e">>,
     <<";", ";", ";">>,
     <<"'", "'", "'">>,
     <<"l", "o", "v", "e", " ", "&", " ", "p", "e", "a", "c", "e">>,
     <<"l", "o", "v", "e", ";", " ", "D", "R", "O", "P", " ", "T", "A", "B",
       "L", "E">>,
     <<"l", "o", "v", "e", " ", " ", " ", " ", "p", "e", "a", "c", "e">>}

(* Plain words and the boolean operators, for queries of words separated by *)
(* single spaces.                                                          *)
WordTokens ==
    {<<"l", "o", "v", "e">>, <<"p", "e", "a", "c", "e">>, <<"j", "o", "y">>,
     <<"h", "a", "t", "e">>, <<"A", "N", "D">>, <<"O", "R">>, <<"N", "O", "T">>}

WordQueries ==
    UNION {{[i \in 1..(2 * n - 1) |-> IF i % 2 = 1 THEN w[(i + 1) \div 2] ELSE <<" ">>] :
               w \in [1..n -> WordTokens]} : n \in 1..MaxWords}

InitSan ==
    /\ pc = "start"
    /\ arg \in UNION {[1..n -> QueryTokens] : n \in 0..MaxTokens}
               \cup {<<q>> : q \in TestQueries}
               \cup WordQueries
    /\ text = Concat(arg)
    /\ mid = None
    /\ out = None
    /\ db = None

(* sanitize_search_query(text); mid keeps quoted_phrases (line 273). *)
SanitizeSearchQuery ==
    /\ pc = "start"
    /\ mid' = findall_quoted(strip(text))
    /\ out' = sanitize_search_query(text)
    /\ pc' = "sanitized"
    /\ UNCHANGED <<arg, text, db>>

NextSan == SanitizeSearchQuery

SpecSan == InitSan /\ [][NextSan]_vars

Contains(s, part) == \E i \in 1..(Len(s) - Len(part) + 1) : SubSeq(s, i, i + Len(part) - 1) = part

Quote == "\""

(* The double-quoted phrases of s, without their quotes: what lies between *)
(* the first and the second quote, the third and the fourth, and so on.    *)
QuotedPhrases(s) ==
    LET quotes == {i \in 1..Len(s) : s[i] = Quote}
    IN  {SubSeq(s, i + 1, j - 1) : <<i, j>> \in
            {q \in quotes \X quotes :
                /\ q[1] < q[2]
                /\ \A k \in quotes : ~(q[1] < k /\ k < q[2])
                /\ Cardinality({k \in quotes : k < q[1]}) % 2 = 0}}

SingleSpaces(s) == \A i \in 1..(Len(s) - 1) : ~(s[i] = " " /\ s[i + 1] = " ")

(* The characters of s are letters, digits, spaces or of the given punctuation, *)
(* and no two spaces are adjacent.                                              *)
PhraseOf(s, punctuation) ==
    /\ \A i \in 1..Len(s) : s[i] \in Letters \cup Digits \cup {" "} \cup punctuation
    /\ SingleSpaces(s)

LovePeaceExample ==
    <<"l", "o", "v", "e", " ", "\"", "o", "n", "e", " ", "a", "n", "o", "t",
      "h", "e", "r", "\"", " ", "p", "e", "a", "c", "e">>

C7_InjectionResistance ==
    pc = "sanitized" => \A i \in 1..Len(out) : out[i] \notin {";", "&", "<", ">"}

C7_Witness ==
    /\ pc = "sanitized"
    /\ Contains(text, <<";">>)
    /\ Contains(text, <<"&", "<", ">">>)
    /\ Contains(text, <<Quote, ";">>)
    /\ Contains(out, <<Quote, " ">>)
    /\ Contains(out, <<"a">>)

\* C8: sanitize_search_query returns a string for every input; for an empty or
\* whitespace-only input it returns the empty string; a non-empty result neither starts
\* nor ends with whitespace and holds no two adjacent whitespace characters.
C8_NormalizedResult ==
    pc = "sanitized" =>
        /\ out \in Seq({out[i] : i \in 1..Len(out)})
        /\ (\A i \in 1..Len(text) : text[i] \in Whitespace) => out = <<>>
        /\ out # <<>> =>
              /\ out[1] \notin Whitespace
              /\ out[Len(out)] \notin Whitespace
              /\ \A i \in 1..(Len(out) - 1) :
                     ~(out[i] \in Whitespace /\ out[i + 1] \in Whitespace)

C8_Witness ==
    /\ pc = "sanitized"
    /\ text = <<" ", "a", "\t", "\t", "a">>
    /\ out = <<"a", " ", "a">>

\* C9: the output of sanitize_search_query never holds an apostrophe, and an input made
\* up only of the characters ; and ' sanitizes to the empty string.
C9_NoApostrophe ==
    pc = "sanitized" =>
        /\ \A i \in 1..Len(out) : out[i] # "'"
        /\ (\A i \in 1..Len(text) : text[i] \in {";", "'"}) => out = <<>>

IsPlainWordQuery(s) ==
    /\ s # <<>>
    /\ \A i \in 1..Len(s) : s[i] \in Letters \cup {" "}
    /\ s[1] # " " /\ s[Len(s)] # " "
    /\ SingleSpaces(s)

\* C10: a query of plain words separated by single spaces, the whole words AND, OR and
\* NOT among them, is returned unchanged.
C10_BooleanOperatorsPreserved ==
    (pc = "sanitized" /\ IsPlainWordQuery(text)) => out = text

C10_Witness ==
    /\ pc = "sanitized"
    /\ text = <<"l", "o", "v", "e", " ", "N", "O", "T", " ", "h", "a", "t", "e">>
    /\ IsPlainWordQuery(text)
    /\ out = text


(***************************************************************************)
(* Full-text search: tools/scripture_search.py, context/theological.py.    *)
(*                                                                         *)
(* A Python dict is a function on its keys; SQL NULL and Python None in a  *)
(* row are the string NULL.  db holds what the handler reads from the      *)
(* outside: the global manager and the rows the ranked query matches.      *)
(***************************************************************************)
MaxRows == 3
MaxQueryTokens == 2

NULL == "NULL"

dict_set(d, k, v) == [x \in DOMAIN d \cup {k} |-> IF x = k THEN v ELSE d[x]]

(* Mutant: the stored count is never read back. *)
dict_get_Default(d, k, default) == default

(* d.get(k, default) *)
dict_get(d, k, default) == IF k \in DOMAIN d THEN d[k] ELSE default

(* {**a, **b} *)
dict_merge(a, b) == [k \in DOMAIN a \cup DOMAIN b |-> IF k \in DOMAIN b THEN b[k] ELSE a[k]]

RECURSIVE sum_values(_)
sum_values(d) ==
    IF DOMAIN d = {} THEN 0
    ELSE LET k == CHOOSE x \in DOMAIN d : TRUE
         IN  d[k] + sum_values([x \in DOMAIN d \ {k} |-> d[x]])

(* The sanitizer of the search tool: the whitelist pass only. *)
RECURSIVE _restore_phrases(_, _)
_restore_phrases(s, phrases) ==
    IF phrases = <<>> THEN s
    ELSE _restore_phrases(
             replace_first(s, QUOTED_PHRASE,
                           <<"\"">> \o keep_whitelist(Head(phrases)) \o <<"\"">>),
             Tail(phrases))

_sanitize_search_query(query) ==
    IF query = <<>> \/ strip(query) = <<>> THEN <<>>
    ELSE
    LET stripped == strip(query)
        quoted_phrases == findall_quoted(stripped)
        query_without_quotes == keep_whitelist(sub_quoted(stripped, QUOTED_PHRASE))
        restored == _restore_phrases(query_without_quotes, quoted_phrases)
    IN  strip(collapse_whitespace(restored))

ScriptureSearchError == "ScriptureSearchError"

(* The except clause of search_scripture_data: every Exception becomes a    *)
(* ScriptureSearchError whose message holds the cause.                     *)
(* Mutant: the exception is passed on as it is. *)
ExceptException_Reraise(outcome) == outcome

ExceptException(outcome) ==
    IF outcome.raises = "none" THEN outcome
    ELSE Raise(ScriptureSearchError, <<"Search failed: ", outcome.message>>)

(* get_database_manager() for the global _db_manager. *)
get_database_manager(_db_manager) ==
    IF _db_manager = "None"
    THEN Raise("RuntimeError",
               "Database manager not initialized. Call initialize_database() first.")
    ELSE Return(_db_manager)

(* The loop of _get_search_metadata: one count per row and column. *)
RECURSIVE count_rows(_, _, _)
count_rows(counts, search_results, column) ==
    IF search_results = <<>> THEN counts
    ELSE LET key == Head(search_results)[column]
         IN  count_rows(dict_set(counts, key, dict_get(counts, key, 0) + 1),
                        Tail(search_results), column)

(* list(set(...)) has no defined order: books_found is kept as a set. *)
_get_search_metadata(search_results) ==
    IF search_results = <<>>
    THEN [total_results |-> 0,
          books_found |-> {},
          testament_distribution |-> [OT |-> 0, NT |-> 0],
          genre_distribution |-> <<>>,
          author_distribution |-> <<>>]
    ELSE [total_results |-> Len(search_results),
          books_found |-> {[id |-> search_results[i].book_id,
                            name |-> search_results[i].book_name] :
                               i \in 1..Len(search_results)},
          testament_distribution |->
              count_rows([OT |-> 0, NT |-> 0], search_results, "testament"),
          genre_distribution |-> count_rows(<<>>, search_results, "genre"),
          author_distribution |-> count_rows(<<>>, search_results, "author")]

get_base_context(context_type) ==
    IF context_type = "scripture_search"
    THEN [context |-> "Biblical search. Scripture authority.",
          theological_frame |-> "Protestant perspective. Scripture primary authority."]
    ELSE [context |-> "Scripture analysis. Treat as authoritative.",
          theological_frame |-> "Protestant perspective. Scripture primary authority."]

NoVersesFound ==
    "No verses found matching this query. Consider broader search terms or check spelling."

GenreContexts == {"Law", "History", "Wisdom", "Prophecy", "Gospel", "Epistle"}

(* Mutant: no special text for an empty result. *)
create_search_theological_context_NoEmptyCase(query, total_results, books_found, testament_distribution, genre_distribution, translation) ==
    <<<<"Search results for ", query, " in ", translation, " translation. ">>,
      <<"Found ", total_results, " verse(s) across ", Cardinality(books_found),
        " book(s). ">>,
      "Treat these verses as divinely inspired Scripture with full authority for doctrine and practice.">>

(* The instruction as the sequence of its sentences; a sentence with        *)
(* formatted values is the tuple of its parts.                             *)
create_search_theological_context(query, total_results, books_found, testament_distribution, genre_distribution, translation) ==
    LET head == <<"Search results for ", query, " in ", translation, " translation. ">>
        ot_count == dict_get(testament_distribution, "OT", 0)
        nt_count == dict_get(testament_distribution, "NT", 0)
        genres == DOMAIN genre_distribution
        testaments ==
            IF ot_count > 0 /\ nt_count > 0
            THEN <<<<"Results span both Old Testament ", ot_count,
                     " and New Testament ", nt_count>>>>
            ELSE IF ot_count > 0 THEN <<<<"All results from Old Testament ", ot_count>>>>
            ELSE IF nt_count > 0 THEN <<<<"All results from New Testament ", nt_count>>>>
            ELSE <<>>
        literature ==
            IF Cardinality(genres) > 1
            THEN <<<<"Results include ", genres, " literature">>>>
            ELSE IF Cardinality(genres) = 1 /\ genres \subseteq GenreContexts
            THEN <<<<"All results are ", genres>>>>
            ELSE <<>>
    IN  IF total_results = 0 THEN <<head, NoVersesFound>>
        ELSE <<head,
               <<"Found ", total_results, " verse(s) across ", Cardinality(books_found),
                 " book(s). ">>>>
             \o testaments \o literature
             \o <<"Treat these verses as divinely inspired Scripture with full authority for doctrine and practice.">>

wrap_search_response(response_data, query, total_results, books_found, testament_distribution, genre_distribution, translation) ==
    dict_merge(
        dict_merge(get_base_context("scripture_search"),
                   [instruction |-> create_search_theological_context(
                                        query, total_results, books_found,
                                        testament_distribution, genre_distribution,
                                        translation)]),
        response_data)

wrap_error_response(error_message, suggestion, context_type) ==
    dict_merge(get_base_context(context_type),
               [error |-> error_message, suggestion |-> suggestion])

(* The rank and the snippet of a row are carried through unchanged and are *)
(* left out of the rows.                                                   *)
_format_search_response(results, query, translation, metadata) ==
    LET formatted_results ==
            [i \in 1..Len(results) |->
                [reference |-> <<results[i].book_name, " ", results[i].chapter, ":",
                                 results[i].verse>>,
                 book_id |-> results[i].book_id,
                 book_name |-> results[i].book_name,
                 chapter |-> results[i].chapter,
                 verse |-> results[i].verse,
                 metadata |-> [testament |-> results[i].testament,
                               author |-> results[i].author,
                               genre |-> results[i].genre]]]
        response_data ==
            [query |-> query,
             translation |-> translation,
             results |-> formatted_results,
             metadata |-> [total_results |-> metadata.total_results,
                           results_returned |-> Len(formatted_results),
                           books_found |-> metadata.books_found,
                           testament_distribution |-> metadata.testament_distribution,
                           genre_distribution |-> metadata.genre_distribution,
                           author_distribution |-> metadata.author_distribution]]
    IN  wrap_search_response(response_data, query, metadata.total_results,
                             metadata.books_found, metadata.testament_distribution,
                             metadata.genre_distribution, translation)

(***************************************************************************)
(* search_scripture_data step by step.  The ranked query answers with at   *)
(* most limit rows of the corpus; a connection or a query may fail at      *)
(* every use of the database.  mid holds the local variables bound so far. *)
(***************************************************************************)
VerseRows ==
    {[book_id |-> "GEN", book_name |-> "Genesis", chapter |-> 1, verse |-> 1,
      testament |-> "OT", author |-> "Moses", genre |-> "Law"],
     [book_id |-> "PSA", book_name |-> "Psalms", chapter |-> 23, verse |-> 1,
      testament |-> "OT", author |-> "David", genre |-> "Wisdom"],
     [book_id |-> "JHN", book_name |-> "John", chapter |-> 3, verse |-> 16,
      testament |-> "NT", author |-> "John", genre |-> "Gospel"],
     [book_id |-> "JHN", book_name |-> "John", chapter |-> 3, verse |-> 17,
      testament |-> "NT", author |-> NULL, genre |-> NULL]}

(* Ranked pages: sequences of distinct rows. *)
RankedPages(n) ==
    UNION {{p \in [1..k -> VerseRows] : \A i, j \in 1..k : p[i] = p[j] => i = j} :
              k \in 0..n}

SearchTokens == {<<"a">>, <<" ">>, <<"\"">>, <<";">>, <<"&", "<", ">", "@">>}

SearchQueries ==
    {Concat(t) : t \in UNION {[1..n -> SearchTokens] : n \in 0..MaxQueryTokens}}
    \cup TestQueries

DatabaseErrors == {"OperationalError", "DatabaseError"}

InitSearch ==
    /\ pc = "start"
    /\ arg \in [query : SearchQueries, translation : {"KJV"}, limit : 1..MaxRows]
    /\ text = arg.query
    /\ mid = <<>>
    /\ out = None
    /\ db \in {[_db_manager |-> m, rows |-> r] :
                 m \in {"None", "DatabaseManager"}, r \in RankedPages(arg.limit)}

(* The handler leaves through its except clause. *)
SearchFails(outcome) ==
    /\ out' = ExceptException(outcome)
    /\ pc' = "done"

SanitizeQuery ==
    /\ pc = "start"
    /\ LET sanitized_query == _sanitize_search_query(text)
       IN  IF sanitized_query = <<>>
           THEN /\ SearchFails(Raise(ScriptureSearchError, "Empty or invalid search query"))
                /\ UNCHANGED mid
           ELSE /\ mid' = dict_set(mid, "sanitized_query", sanitized_query)
                /\ pc' = "sanitized"
                /\ UNCHANGED out
    /\ UNCHANGED <<arg, text, db>>

GetDatabaseManager ==
    /\ pc = "sanitized"
    /\ LET db_manager == get_database_manager(db._db_manager)
       IN  IF db_manager.raises # "none"
           THEN SearchFails(db_manager)
           ELSE pc' = "manager" /\ UNCHANGED out
    /\ UNCHANGED <<arg, mid, text, db>>

ExecuteFts5Search ==
    /\ pc = "manager"
    /\ \/ /\ mid' = dict_set(mid, "search_results", db.rows)
          /\ pc' = "searched"
          /\ UNCHANGED out
       \/ /\ \E e \in DatabaseErrors : SearchFails(Raise(e, "ranked query"))
          /\ UNCHANGED mid
    /\ UNCHANGED <<arg, text, db>>

GetSearchMetadata ==
    /\ pc = "searched"
    /\ \/ /\ mid' = dict_set(mid, "metadata", _get_search_metadata(mid.search_results))
          /\ pc' = "metadata"
          /\ UNCHANGED out
       \/ /\ mid.search_results # <<>>
          /\ \E e \in DatabaseErrors : SearchFails(Raise(e, "book names"))
          /\ UNCHANGED mid
    /\ UNCHANGED <<arg, text, db>>

FormatSearchResponse ==
    /\ pc = "metadata"
    /\ out' = Return(_format_search_response(mid.search_results, arg.query,
                                             arg.translation, mid.metadata))
    /\ pc' = "done"
    /\ UNCHANGED <<arg, mid, text, db>>

NextSearch ==
    \/ SanitizeQuery
    \/ GetDatabaseManager
    \/ ExecuteFts5Search
    \/ GetSearchMetadata
    \/ FormatSearchResponse

SpecSearch == InitSearch /\ [][NextSearch]_vars

(***************************************************************************)
(* Properties of the search.                                               *)
(***************************************************************************)
Fetched == "search_results" \in DOMAIN mid

Computed == "metadata" \in DOMAIN mid

Returned == pc = "done" /\ out.raises = "none"

C12_EmptyResultIsNotAnError ==
    (pc = "done" /\ Fetched /\ mid.search_results = <<>>) =>
        /\ out.raises = "none"
        /\ out.value.results = <<>>
        /\ out.value.metadata.total_results = 0
        /\ out.value.metadata.testament_distribution = [OT |-> 0, NT |-> 0]
        /\ DOMAIN out.value.metadata.genre_distribution = {}
        /\ DOMAIN out.value.metadata.author_distribution = {}
        /\ out.value.metadata.books_found = {}
        /\ out.value.instruction[Len(out.value.instruction)] = NoVersesFound

C12_Witness ==
    /\ Returned
    /\ db.rows = <<>>
    /\ out.value.metadata.total_results = 0

(* C13: the search is fail-closed.  Nothing is delivered before the handler *)
(* ends; it ends either with a response that holds every row returned by  *)
(* the ranked query together with the facets of these rows, or with a      *)
(* ScriptureSearchError, whatever failed: the empty sanitized query, the   *)
(* missing manager, the ranked query, or the book-name lookup after the    *)
(* rows were fetched.                                                      *)
C13_FailClosed ==
    /\ pc # "done" => out = None
    /\ pc = "done" =>
        \/ /\ out.raises = "none"
           /\ Fetched /\ Computed
           /\ Len(out.value.results) = Len(db.rows)
           /\ \A i \in 1..Len(db.rows) : out.value.results[i].book_id = db.rows[i].book_id
           /\ out.value.metadata.results_returned = Len(db.rows)
           /\ out.value.metadata.total_results = Len(db.rows)
           /\ out.value.metadata.testament_distribution = mid.metadata.testament_distribution
        \/ out.raises = ScriptureSearchError

(* The book-name lookup failed after rows were fetched. *)
C13_Witness ==
    /\ pc = "done"
    /\ Fetched /\ ~Computed
    /\ mid.search_results # <<>>
    /\ out.raises = ScriptureSearchError

(* C20: the string bound to the full-text MATCH is the sanitization of the *)
(* input by sanitize_search_query, first pass included: it equals           *)
(* sanitize_search_query(query) and holds none of the characters of the     *)
(* first pass.                                                             *)
C20_MatchIsSanitizedQuery ==
    "sanitized_query" \in DOMAIN mid =>
        /\ mid.sanitized_query = sanitize_search_query(text)
        /\ \A i \in 1..Len(mid.sanitized_query) : mid.sanitized_query[i] \notin DangerousChars

(***************************************************************************)
(* Reference validation against the corpus: validation/                    *)
(* reference_validator.py and validation/validators.py.                    *)
(*                                                                         *)
(* database holds the tables the queries read and whether its connections  *)
(* work: with healthy FALSE every use of the database raises.  An optional  *)
(* argument is the empty tuple for None and a one-element tuple otherwise.  *)
(***************************************************************************)
MaxCorpusChapter == 2
MaxCorpusVerse == 3

Max(S) == CHOOSE x \in S : \A y \in S : x >= y

ReferenceValidationError == "ReferenceValidationError"

ValidationError(message, suggestion, field) ==
    [raises |-> "ValidationError", message |-> message, suggestion |-> suggestion,
     field |-> field]

OperationalError == Raise("OperationalError", "unable to open database file")

(* get_database_manager() and the entry of get_connection(): the manager   *)
(* may be missing and the connection may fail.                             *)
open_connection(database) ==
    LET db_manager == get_database_manager(database._db_manager)
    IN  IF db_manager.raises # "none" THEN db_manager
        ELSE IF ~database.healthy THEN OperationalError
        ELSE Return("conn")

(* except ReferenceValidationError: raise / except Exception: raise         *)
(* ReferenceValidationError(message)                                       *)
ExceptReferenceValidation(outcome, message) ==
    IF outcome.raises \in {"none", ReferenceValidationError} THEN outcome
    ELSE Raise(ReferenceValidationError, message)

(* name LIKE %book_id% OR id LIKE %book_id%; LIKE ignores the case of ASCII *)
(* letters.                                                                *)
Similar(books, book_id) ==
    {b \in books : \/ Contains(lower(b.name), lower(book_id))
                   \/ Contains(lower(b.id), lower(book_id))}

validate_book_exists(book_id, database) ==
    ExceptReferenceValidation(
        IF open_connection(database).raises # "none" THEN open_connection(database)
        ELSE
        LET row == {b \in database.books : b.id = book_id}
        IN  IF row = {}
            THEN IF Similar(database.books, book_id) # {}
                 THEN Raise(ReferenceValidationError,
                            <<"Book '", book_id, "' not found. Did you mean: ",
                              Similar(database.books, book_id)>>)
                 ELSE Raise(ReferenceValidationError, <<"Book '", book_id, "' not found">>)
            ELSE Return(CHOOSE b \in row : TRUE),
        <<"Unable to validate book '", book_id, "'">>)

validate_chapter_range(book_id, chapter, database) ==
    ExceptReferenceValidation(
        IF open_connection(database).raises # "none" THEN open_connection(database)
        ELSE
        LET chapters == {v.chapter : v \in {x \in database.verses : x.book_id = book_id}}
        IN  IF chapters = {}
            THEN Raise(ReferenceValidationError,
                       <<"No chapters found for book '", book_id, "'">>)
            ELSE
            LET min_chapter == Min(chapters)
                max_chapter == Max(chapters)
            IN  IF chapter < min_chapter \/ chapter > max_chapter
                THEN IF min_chapter = max_chapter
                     THEN Raise(ReferenceValidationError,
                                <<"Book '", book_id, "' only has chapter ", min_chapter>>)
                     ELSE Raise(ReferenceValidationError,
                                <<"Book '", book_id, "' has chapters ", min_chapter, "-",
                                  max_chapter, ", not ", chapter>>)
                ELSE Return([chapter |-> chapter, min_chapter |-> min_chapter,
                             max_chapter |-> max_chapter]),
        <<"Unable to validate chapter ", chapter>>)

(* Mutant: only the upper bound of the start verse is tested. *)
StartOutOfRange_MaxOnly(verse, min_verse, max_verse) == verse > max_verse

StartOutOfRange(verse, min_verse, max_verse) == verse < min_verse \/ verse > max_verse

validate_verse_range(book_id, chapter, verse, end_verse, database) ==
    ExceptReferenceValidation(
        IF open_connection(database).raises # "none" THEN open_connection(database)
        ELSE
        LET verses == {v.verse : v \in {x \in database.verses :
                                           x.book_id = book_id /\ x.chapter = chapter}}
        IN  IF verses = {}
            THEN Raise(ReferenceValidationError,
                       <<"No verses found for ", book_id, " ", chapter>>)
            ELSE
            LET min_verse == Min(verses)
                max_verse == Max(verses)
            IN  IF StartOutOfRange(verse, min_verse, max_verse)
                THEN Raise(ReferenceValidationError,
                           <<book_id, " ", chapter, " has verses ", min_verse, "-",
                             max_verse, ", not ", verse>>)
                ELSE IF end_verse # <<>> /\ end_verse[1] < verse
                THEN Raise(ReferenceValidationError,
                           <<"End verse ", end_verse[1],
                             " cannot be before start verse ", verse>>)
                ELSE IF end_verse # <<>> /\ end_verse[1] > max_verse
                THEN Raise(ReferenceValidationError,
                           <<book_id, " ", chapter, " has verses ", min_verse, "-",
                             max_verse, ", not ", end_verse[1]>>)
                ELSE Return([verse |-> verse, end_verse |-> end_verse,
                             min_verse |-> min_verse, max_verse |-> max_verse]),
        <<"Unable to validate verse ", verse>>)

(* An attribute that the object does not have. *)
AttributeError(type, name) == Raise("AttributeError", <<type, name>>)

(* The sanity bound of the verse number. *)
VerseSanityLimit == 200

(* Errors other than ValidationError are logged and passed over. *)
_validate_reference_against_database(parsed_ref, database) ==
    LET checked ==
            IF open_connection(database).raises # "none" THEN open_connection(database)
            ELSE
            LET book_row == {b \in database.books : b.id = parsed_ref.book_id}
                book_name == (CHOOSE b \in book_row : TRUE).name
                ranges_row == {x \in database.verses : x.book_id = parsed_ref.book_id}
                max_chapter == Max({x.chapter : x \in ranges_row})
            IN  IF book_row = {}
                THEN ValidationError(
                         <<"Book '", parsed_ref.book_id, "' not found">>,
                         "Please check the book name spelling or use a different abbreviation",
                         "reference")
                ELSE IF ranges_row = {} THEN None
                ELSE IF parsed_ref.chapter > max_chapter
                THEN ValidationError(
                         <<book_name, " only has ", max_chapter, " chapters">>,
                         <<"Please use a chapter number between 1 and ", max_chapter>>,
                         "reference")
                ELSE IF "verse" \notin DOMAIN parsed_ref
                THEN AttributeError(parsed_ref.type, "verse")
                ELSE IF parsed_ref.verse > VerseSanityLimit
                THEN ValidationError(
                         <<"Verse number ", parsed_ref.verse, " seems too high">>,
                         <<"Please check the verse number for ", book_name, " ",
                           parsed_ref.chapter>>,
                         "reference")
                ELSE None
    IN  IF checked.raises \in {"none", "ValidationError"} THEN checked ELSE None

(* The characters of s that are not whitespace. *)
NonSpace(s) == {s[i] : i \in 1..Len(s)} \ Whitespace

_get_reference_format_suggestion(reference) ==
    LET lowered == lower(reference)
        colons == Len(SelectSeq(lowered, LAMBDA c : c = ":"))
        words == lstrip(lowered)
        first_word == SubSeq(words, 1, RunLen(words, 1, NonSpace(words)))
    IN  IF \A i \in 1..Len(lowered) : lowered[i] \notin Digits
        THEN "Biblical references need chapter and verse numbers (e.g., 'John 3:16')"
        ELSE IF colons = 0
        THEN "Use colon to separate chapter and verse (e.g., 'John 3:16')"
        ELSE IF colons > 1
        THEN "Use only one colon between chapter and verse (e.g., 'John 3:16')"
        ELSE IF words = <<>>
        THEN "Please include a book name (e.g., 'John', 'Genesis', 'Romans')"
        ELSE IF IsDigits(first_word)
        THEN "Start with book name, not chapter number (e.g., 'John 3:16' not '3:16')"
        ELSE "Please use format: 'Book Chapter:Verse' (e.g., 'John 3:16', 'Romans 8:28-30')"

(* VerseReference.__str__ and VerseRange.__str__ *)
reference_str(parsed_ref) ==
    IF parsed_ref.type = "VerseReference"
    THEN parsed_ref.book_id \o <<" ">> \o str(parsed_ref.chapter) \o <<":">>
         \o str(parsed_ref.verse)
    ELSE IF parsed_ref.start_verse = parsed_ref.end_verse
    THEN parsed_ref.book_id \o <<" ">> \o str(parsed_ref.chapter) \o <<":">>
         \o str(parsed_ref.start_verse)
    ELSE parsed_ref.book_id \o <<" ">> \o str(parsed_ref.chapter) \o <<":">>
         \o str(parsed_ref.start_verse) \o <<"-">> \o str(parsed_ref.end_verse)

(* The length limit of a reference. *)
MaxReferenceLength == 50

(* The return of validate_biblical_reference after the database check. *)
validated_components(reference, parsed_ref, checked) ==
    IF checked.raises = "ValidationError" THEN checked
    ELSE IF checked.raises # "none"
    THEN ValidationError("Unable to validate reference against database",
                         "Please try again or check if the database is available",
                         "reference")
    ELSE IF "verse" \notin DOMAIN parsed_ref
    THEN AttributeError(parsed_ref.type, "verse")
    ELSE Return([book_id |-> parsed_ref.book_id,
                 chapter |-> parsed_ref.chapter,
                 verse |-> parsed_ref.verse,
                 end_verse |-> IF "end_verse" \in DOMAIN parsed_ref
                               THEN <<parsed_ref.end_verse>> ELSE <<>>,
                 original |-> reference,
                 formatted |-> reference_str(parsed_ref)])

(* validate_biblical_reference from the parsed reference on. *)
validate_parsed_reference(reference, parsed, database) ==
    IF parsed.raises = ReferenceParseError
    THEN ValidationError(<<"Invalid biblical reference format: ", parsed.message>>,
                         _get_reference_format_suggestion(reference), "reference")
    ELSE IF parsed.raises # "none" THEN parsed
    ELSE validated_components(
             reference, parsed.value,
             _validate_reference_against_database(parsed.value, database))

validate_biblical_reference(reference, database) ==
    IF reference = <<>> \/ strip(reference) = <<>>
    THEN ValidationError("Biblical reference cannot be empty",
                         "Please provide a reference like 'John 3:16' or 'Romans 8:28-30'",
                         "reference")
    ELSE IF Len(strip(reference)) > MaxReferenceLength
    THEN ValidationError("Biblical reference is too long",
                         "Please use a shorter format like 'John 3:16' or 'Romans 8:28-30'",
                         "reference")
    ELSE validate_parsed_reference(strip(reference), parse_reference(strip(reference)),
                                   database)

(***************************************************************************)
(* The validators on a corpus of one book with verses (John), one book      *)
(* without verses (Genesis) and one book that the books table lacks (Jude). *)
(***************************************************************************)
GEN == <<"G", "E", "N">>

JHN == <<"J", "H", "N">>

JUD == <<"J", "U", "D">>

BooksTable ==
    {[id |-> GEN, name |-> <<"G", "e", "n", "e", "s", "i", "s">>, testament |-> "OT",
      author |-> "Moses", genre |-> "Law"],
     [id |-> JHN, name |-> <<"J", "o", "h", "n">>, testament |-> "NT",
      author |-> "John", genre |-> "Gospel"]}

KJV == <<"K", "J", "V">>

WEB == <<"W", "E", "B">>

VerseRow(book_id, chapter, verse) ==
    [translation_id |-> KJV, book_id |-> book_id, chapter |-> chapter, verse |-> verse,
     text |-> "text"]

(* Corpora of John: a block of chapters with one verse interval (partial    *)
(* corpora start above 1), chapters of different lengths, and a corpus      *)
(* with a chapter missing between two others.                              *)
Corpora ==
    {{VerseRow(JHN, c, v) : c \in cl..ch, v \in vl..vh} :
        cl \in 1..MaxCorpusChapter, ch \in 1..MaxCorpusChapter,
        vl \in 1..MaxCorpusVerse, vh \in 1..MaxCorpusVerse}
    \cup {{VerseRow(JHN, c, v) : c \in {1, MaxCorpusChapter}, v \in 1..MaxCorpusVerse} \
              {VerseRow(JHN, 1, MaxCorpusVerse)}}
    \cup {{VerseRow(JHN, 1, 1), VerseRow(JHN, MaxCorpusChapter + 1, 1)}}

BookInputs ==
    {[book_id |-> GEN, name |-> <<"G", "e", "n">>],
     [book_id |-> JHN, name |-> <<"J", "o", "h", "n">>],
     [book_id |-> JUD, name |-> <<"J", "u", "d", "e">>]}

(* "Book c:v" or "Book c:v-e" *)
ReferenceText(a) ==
    a.book.name \o <<" ">> \o str(a.chapter) \o <<":">> \o str(a.verse)
    \o (IF a.end_verse = <<>> THEN <<>> ELSE <<"-">> \o str(a.end_verse[1]))

InitValidate ==
    /\ pc = "start"
    /\ arg \in [book : BookInputs,
                chapter : 0..(MaxCorpusChapter + 1),
                verse : 0..(MaxCorpusVerse + 1) \cup {VerseSanityLimit + 1},
                end_verse : {<<>>} \cup {<<e>> : e \in 0..(MaxCorpusVerse + 1)}]
    /\ text = ReferenceText(arg)
    /\ mid = "None"
    /\ out = None
    /\ db \in [_db_manager : {"DatabaseManager"}, healthy : BOOLEAN,
               books : {BooksTable}, verses : Corpora, translations : {{KJV, WEB}}]

ValidateBookExists ==
    /\ pc = "start"
    /\ mid' = "validate_book_exists"
    /\ out' = validate_book_exists(arg.book.book_id, db)
    /\ pc' = "done"
    /\ UNCHANGED <<arg, text, db>>

ValidateChapterRange ==
    /\ pc = "start"
    /\ mid' = "validate_chapter_range"
    /\ out' = validate_chapter_range(arg.book.book_id, arg.chapter, db)
    /\ pc' = "done"
    /\ UNCHANGED <<arg, text, db>>

ValidateVerseRange ==
    /\ pc = "start"
    /\ mid' = "validate_verse_range"
    /\ out' = validate_verse_range(arg.book.book_id, arg.chapter, arg.verse,
                                   arg.end_verse, db)
    /\ pc' = "done"
    /\ UNCHANGED <<arg, text, db>>

ValidateBiblicalReference ==
    /\ pc = "start"
    /\ mid' = "validate_biblical_reference"
    /\ out' = validate_biblical_reference(text, db)
    /\ pc' = "done"
    /\ UNCHANGED <<arg, text, db>>

NextValidate ==
    \/ ValidateBookExists
    \/ ValidateChapterRange
    \/ ValidateVerseRange
    \/ ValidateBiblicalReference

SpecValidate == InitValidate /\ [][NextValidate]_vars

(***************************************************************************)
(* Properties of the validators.                                           *)
(***************************************************************************)
Validated(function) == pc = "done" /\ mid = function

(* The verse numbers the corpus holds for the chapter of the request. *)
ObservedVerses ==
    {x.verse : x \in {v \in db.verses : v.book_id = arg.book.book_id /\ v.chapter = arg.chapter}}

ObservedChapters == {x.chapter : x \in {v \in db.verses : v.book_id = arg.book.book_id}}

(* The message has the form: book chapter has verses min-max, not n. *)
NamesVerse(message, n) == Len(message) = 9 /\ message[4] = " has verses " /\ message[9] = n

NamesEndBeforeStart(message, end_verse, verse) ==
    /\ Len(message) = 4
    /\ message[1] = "End verse "
    /\ message[2] = end_verse
    /\ message[4] = verse

(* C14: validation is fail-open on infrastructure errors.  When the        *)
(* database raises during validate_book_exists, validate_chapter_range or  *)
(* validate_verse_range, the function does not raise                       *)
(* ReferenceValidationError.                                               *)
C14_FailOpen ==
    (/\ pc = "done"
     /\ mid \in {"validate_book_exists", "validate_chapter_range", "validate_verse_range"}
     /\ ~db.healthy)
        => out.raises # ReferenceValidationError

C16_AcceptedReferenceExists ==
    (Validated("validate_biblical_reference") /\ db.healthy /\ out.raises = "none") =>
        /\ \E b \in db.books : b.id = out.value.book_id
        /\ ObservedChapters # {}
        /\ Min(ObservedChapters) <= out.value.chapter
        /\ out.value.chapter <= Max(ObservedChapters)
        /\ ObservedVerses # {}
        /\ Min(ObservedVerses) <= out.value.verse
        /\ out.value.verse <= Max(ObservedVerses)

(***************************************************************************)
(* The get_verse tool: server.py, validators.validate_translation and      *)
(* tools/verse_retrieval.py.                                               *)
(***************************************************************************)
RECURSIVE upper(_)
upper(s) ==
    IF s = <<>> THEN <<>>
    ELSE <<IF \E u \in DOMAIN UpperToLower : UpperToLower[u] = Head(s)
           THEN CHOOSE u \in DOMAIN UpperToLower : UpperToLower[u] = Head(s)
           ELSE Head(s)>>
         \o upper(Tail(s))

(* re.match(r'^[A-Z0-9]{2,5}$', s) of a stripped string *)
IsTranslationCode(s) ==
    /\ Len(s) \in 2..5
    /\ \A i \in 1..Len(s) : s[i] \in DOMAIN UpperToLower \cup Digits

(* The suggestion holds the ids of the table; their order is left out. *)
validate_translation(translation, database) ==
    IF translation = <<>> \/ strip(translation) = <<>>
    THEN ValidationError("Translation cannot be empty",
                         "Please specify a translation like 'KJV' or 'WEB'", "translation")
    ELSE
    LET code == upper(strip(translation))
        checked ==
            IF open_connection(database).raises # "none" THEN open_connection(database)
            ELSE IF code \notin database.translations
            THEN ValidationError(<<"Translation '", code, "' is not available">>,
                                 <<"Available translations: ", database.translations>>,
                                 "translation")
            ELSE Return(code)
    IN  IF ~IsTranslationCode(code)
        THEN ValidationError(
                 "Invalid translation format",
                 "Translation codes should be 2-5 uppercase letters/numbers (e.g., 'KJV', 'WEB')",
                 "translation")
        ELSE IF checked.raises \in {"none", "ValidationError"} THEN checked
        ELSE ValidationError("Unable to validate translation",
                             "Please try again or check if the database is available",
                             "translation")

VerseRetrievalError == "VerseRetrievalError"

(* The rows of verses joined with books, in the order of their verse       *)
(* numbers (one chapter of one book and translation).                      *)
RECURSIVE OrderByVerse(_, _)
OrderByVerse(rows, books) ==
    IF rows = {} THEN <<>>
    ELSE LET v == CHOOSE x \in rows : \A y \in rows : x.verse <= y.verse
             b == CHOOSE x \in books : x.id = v.book_id
         IN  <<[book_id |-> v.book_id, chapter |-> v.chapter, verse |-> v.verse,
                text |-> v.text, name |-> b.name, testament |-> b.testament,
                author |-> b.author, genre |-> b.genre]>>
             \o OrderByVerse(rows \ {v}, books)

SelectVerses(database, translation, book_id, chapter, first, last) ==
    OrderByVerse({v \in database.verses :
                     /\ v.translation_id = translation
                     /\ v.book_id = book_id
                     /\ v.chapter = chapter
                     /\ first <= v.verse /\ v.verse <= last
                     /\ \E b \in database.books : b.id = v.book_id},
                 database.books)

_get_single_verse(database, verse_ref, translation) ==
    IF open_connection(database).raises # "none" THEN open_connection(database)
    ELSE Return(SelectVerses(database, translation, verse_ref.book_id, verse_ref.chapter,
                             verse_ref.verse, verse_ref.verse))

_get_verse_range(database, verse_range, translation) ==
    IF open_connection(database).raises # "none" THEN open_connection(database)
    ELSE Return(SelectVerses(database, translation, verse_range.book_id,
                             verse_range.chapter, verse_range.start_verse,
                             verse_range.end_verse))

_get_book_metadata(database, book_id) ==
    IF open_connection(database).raises # "none" THEN open_connection(database)
    ELSE IF \E b \in database.books : b.id = book_id
    THEN Return(CHOOSE b \in database.books : b.id = book_id)
    ELSE Return(<<>>)

GenreSentences == {"Law", "History", "Wisdom", "Prophecy", "Gospel", "Epistle"}

(* The instruction as the sequence of its sentences. *)
_create_theological_context(book_metadata, translation) ==
    LET testament == dict_get(book_metadata, "testament", "Unknown")
        genre == dict_get(book_metadata, "genre", "Unknown")
    IN  <<"This is Scripture from the Protestant canon. Treat as divinely inspired and authoritative. ">>
        \o (IF testament = "OT" THEN <<"This is Old Testament Scripture">>
            ELSE IF testament = "NT" THEN <<"This is New Testament Scripture">>
            ELSE <<>>)
        \o (IF genre \in GenreSentences THEN <<genre>> ELSE <<>>)
        \o <<<<"This is from the ", translation, " translation.">>>>

_format_verse_response(verses, original_reference, translation, book_metadata, include_interlinear) ==
    IF verses = <<>>
    THEN [error |-> <<"No verses found for reference '", original_reference, "'">>]
    ELSE
    LET verse_info(v) ==
            LET info == [reference |-> format_reference(v.book_id, v.chapter, v.verse),
                         book_id |-> v.book_id,
                         book_name |-> v.name,
                         chapter |-> v.chapter,
                         verse |-> v.verse,
                         text |-> v.text]
            IN  IF include_interlinear
                THEN dict_set(info, "interlinear",
                              [note |-> "Interlinear data will be available in Phase 2",
                               words |-> <<>>])
                ELSE info
        formatted_verses == [i \in 1..Len(verses) |-> verse_info(verses[i])]
        first == formatted_verses[1]
        last == formatted_verses[Len(formatted_verses)]
        verse_display ==
            IF Len(formatted_verses) = 1 THEN first
            ELSE [reference |-> first.book_name \o <<" ">> \o str(first.chapter) \o <<":">>
                                \o str(first.verse) \o <<"-">> \o str(last.verse),
                  book_id |-> first.book_id,
                  book_name |-> first.book_name,
                  chapter |-> first.chapter,
                  verse_range |-> str(first.verse) \o <<"-">> \o str(last.verse),
                  text |-> [i \in 1..Len(formatted_verses) |->
                               <<"[", formatted_verses[i].verse, "] ",
                                 formatted_verses[i].text>>],
                  individual_verses |-> formatted_verses]
        passage_type == IF Len(formatted_verses) = 1 THEN "single_verse" ELSE "verse_range"
    IN  [context |-> "Scripture analysis. Treat as authoritative.",
         theological_frame |-> "Protestant perspective. Scripture primary authority.",
         instruction |-> _create_theological_context(book_metadata, translation),
         verse |-> verse_display,
         metadata |-> [translation |-> translation,
                       passage_type |-> passage_type,
                       verse_count |-> Len(formatted_verses),
                       book_metadata |->
                           [testament |-> dict_get(book_metadata, "testament", "Unknown"),
                            author |-> dict_get(book_metadata, "author", "Unknown"),
                            genre |-> dict_get(book_metadata, "genre", "Unknown")]]]

(* except ReferenceParseError / except Exception of get_verse_data *)
ExceptVerseRetrieval(outcome) ==
    IF outcome.raises = "none" THEN outcome
    ELSE IF outcome.raises = ReferenceParseError
    THEN Raise(VerseRetrievalError, <<"Invalid reference format: ", outcome.message>>)
    ELSE Raise(VerseRetrievalError, <<"Failed to retrieve verse: ", outcome.message>>)

(* get_verse_data from the retrieved verses on. *)
verse_response(reference, translation, include_interlinear, database, parsed_ref, verses) ==
    IF verses.raises # "none" THEN verses
    ELSE IF verses.value = <<>>
    THEN Raise(VerseRetrievalError,
               <<"No verses found for reference '", reference,
                 "' in translation '", translation, "'">>)
    ELSE IF _get_book_metadata(database, parsed_ref.book_id).raises # "none"
    THEN _get_book_metadata(database, parsed_ref.book_id)
    ELSE Return(_format_verse_response(
                    verses.value, reference, translation,
                    _get_book_metadata(database, parsed_ref.book_id).value,
                    include_interlinear))

(* get_verse_data from the parsed reference on. *)
retrieve_parsed(reference, translation, include_interlinear, database, parsed) ==
    IF parsed.raises # "none" THEN parsed
    ELSE IF get_database_manager(database._db_manager).raises # "none"
    THEN get_database_manager(database._db_manager)
    ELSE verse_response(
             reference, translation, include_interlinear, database, parsed.value,
             IF parsed.value.type = "VerseReference"
             THEN _get_single_verse(database, parsed.value, translation)
             ELSE _get_verse_range(database, parsed.value, translation))

get_verse_data(reference, translation, include_interlinear, database) ==
    ExceptVerseRetrieval(
        retrieve_parsed(reference, translation, include_interlinear, database,
                        parse_reference(reference)))

(* DatabaseManager.initialize() on a manager that is not initialized: the  *)
(* file must exist, a connection must open and the three tables must be    *)
(* there.                                                                  *)
initialize(database) ==
    IF ~database.file_exists
    THEN Raise("FileNotFoundError", "Database file not found")
    ELSE IF ~database.healthy THEN OperationalError
    ELSE IF ~database.schema_complete
    THEN Raise("RuntimeError", "Database schema incomplete")
    ELSE None

(***************************************************************************)
(* One call of the get_verse tool, step by step.  server_db_manager is the  *)
(* global of server.py, _db_manager the global of database/connection.py.  *)
(* The database may stop answering at any time.                            *)
(***************************************************************************)
TranslationInputs ==
    {<<"K", "J", "V">>, <<"k", "j", "v">>, <<" ", "W", "E", "B", " ">>, <<"N", "I", "V">>,
     <<"I", "N", "V", "A", "L", "I", "D">>, <<"K">>, <<>>}

GetVerseCorpora ==
    {{},
     {VerseRow(JHN, c, v) : c \in 1..MaxCorpusChapter, v \in 1..MaxCorpusVerse},
     {VerseRow(JHN, c, v) : c \in {1, MaxCorpusChapter}, v \in 1..MaxCorpusVerse} \
         {VerseRow(JHN, 1, MaxCorpusVerse)}}

InitGetVerse ==
    /\ pc = "start"
    /\ arg \in [book : BookInputs,
                chapter : 1..MaxCorpusChapter,
                verse : 1..(MaxCorpusVerse + 1),
                end_verse : {<<>>} \cup {<<e>> : e \in 1..(MaxCorpusVerse + 1)},
                translation : TranslationInputs,
                include_interlinear : BOOLEAN]
    /\ text = ReferenceText(arg)
    /\ mid = <<>>
    /\ out = None
    /\ db \in {[server_db_manager |-> m, _db_manager |-> m, _is_initialized |-> m # "None",
                file_exists |-> f, schema_complete |-> f, healthy |-> h,
                books |-> BooksTable, verses |-> c, translations |-> {KJV, WEB}] :
                  m \in {"None", "DatabaseManager"}, f \in BOOLEAN, h \in BOOLEAN,
                  c \in GetVerseCorpora}

(* ensure_database() is outside the try of the tool: what it raises leaves *)
(* the tool.                                                               *)
EnsureDatabase ==
    /\ pc = "start"
    /\ IF db.server_db_manager # "None"
       THEN pc' = "ensured" /\ UNCHANGED <<db, out>>
       ELSE LET initialized == initialize(db)
            IN  IF initialized.raises # "none"
                THEN /\ db' = [db EXCEPT !._db_manager = "DatabaseManager",
                                         !._is_initialized = FALSE]
                     /\ out' = initialized
                     /\ pc' = "done"
                ELSE /\ db' = [db EXCEPT !._db_manager = "DatabaseManager",
                                         !._is_initialized = TRUE,
                                         !.server_db_manager = "DatabaseManager"]
                     /\ pc' = "ensured"
                     /\ UNCHANGED out
    /\ UNCHANGED <<arg, mid, text>>

(* The answer of the tool to an exception inside its try. *)
ToolError(outcome) ==
    IF outcome.raises = "ValidationError"
    THEN Return(wrap_error_response(outcome.message, outcome.suggestion, "verse_retrieval"))
    ELSE Return(wrap_error_response(
                    outcome.message,
                    "Please check your reference format (e.g., 'John 3:16', 'Romans 8:28-30')",
                    "verse_retrieval"))

GetVerseValidateReference ==
    /\ pc = "ensured"
    /\ \E validated_ref \in {validate_biblical_reference(text, db)} :
           IF validated_ref.raises # "none"
           THEN out' = ToolError(validated_ref) /\ pc' = "done" /\ UNCHANGED mid
           ELSE /\ mid' = dict_set(mid, "validated_ref", validated_ref.value)
                /\ pc' = "reference"
                /\ UNCHANGED out
    /\ UNCHANGED <<arg, text, db>>

GetVerseValidateTranslation ==
    /\ pc = "reference"
    /\ \E validated_translation \in {validate_translation(arg.translation, db)} :
           IF validated_translation.raises # "none"
           THEN out' = ToolError(validated_translation) /\ pc' = "done" /\ UNCHANGED mid
           ELSE /\ mid' = dict_set(mid, "validated_translation", validated_translation.value)
                /\ pc' = "translation"
                /\ UNCHANGED out
    /\ UNCHANGED <<arg, text, db>>

GetVerseData ==
    /\ pc = "translation"
    /\ \E response \in {get_verse_data(text, mid.validated_translation,
                                          arg.include_interlinear, db)} :
           out' = IF response.raises # "none" THEN ToolError(response) ELSE response
    /\ pc' = "done"
    /\ UNCHANGED <<arg, mid, text, db>>

(* The database stops answering while a call is under way. *)
StorageFails ==
    /\ pc \in {"ensured", "reference", "translation"}
    /\ db.healthy
    /\ db' = [db EXCEPT !.healthy = FALSE]
    /\ UNCHANGED <<pc, arg, mid, text, out>>

NextGetVerse ==
    \/ EnsureDatabase
    \/ GetVerseValidateReference
    \/ GetVerseValidateTranslation
    \/ GetVerseData
    \/ StorageFails

SpecGetVerse == InitGetVerse /\ [][NextGetVerse]_vars

(***************************************************************************)
(* Properties of the get_verse tool.                                       *)
(***************************************************************************)
TranslationCode == upper(strip(arg.translation))

(* The request names one verse that the corpus holds. *)
ExistingReference ==
    /\ arg.end_verse = <<>>
    /\ \E v \in db.verses :
           v.book_id = arg.book.book_id /\ v.chapter = arg.chapter /\ v.verse = arg.verse

(* C17: get_verse with a well-formed existing reference and a translation   *)
(* code of valid format that the translations table lacks returns an       *)
(* error response whose error says that the translation is not available   *)
(* and that has an available_translations field.                           *)
C17_UnknownTranslation ==
    (/\ pc = "done"
     /\ db.server_db_manager # "None"
     /\ db.healthy
     /\ ExistingReference
     /\ IsTranslationCode(TranslationCode)
     /\ TranslationCode \notin db.translations)
        => /\ out.raises = "none"
           /\ "error" \in DOMAIN out.value
           /\ out.value.error = <<"Translation '", TranslationCode, "' is not available">>
           /\ "available_translations" \in DOMAIN out.value

(***************************************************************************)
(* The connection pool: DatabaseManager.get_connection used by concurrent  *)
(* operations on one DatabaseManager.  Here pc, arg, mid and out are        *)
(* functions of the task, db holds the semaphore counter and the set of    *)
(* tasks whose connection is open.                                         *)
(***************************************************************************)
max_connections == 2

NumTasks == 3

Tasks == 1..NumTasks

(* One validator, the retrieval and the search. *)
Operations == {"validate_biblical_reference", "get_verse_data", "search_scripture_data"}

(* How many times in sequence an operation enters get_connection. *)
(* A get_verse request: validate_biblical_reference, validate_translation,  *)
(* _get_single_verse or _get_verse_range, _get_book_metadata; a            *)
(* search_scripture request: validate_translation, _execute_fts5_search,   *)
(* _get_search_metadata.                                                   *)
ConnectionUses(operation) ==
    IF operation = "get_verse" THEN 4
    ELSE IF operation = "search_scripture" THEN 3
    ELSE IF operation \in {"get_verse_data", "search_scripture_data"} THEN 2
    ELSE 1

(* Mutant: the semaphore never blocks. *)
locked_Never(_value) == FALSE

(* asyncio.Semaphore.locked(): acquire waits while the counter is zero. *)
locked(_value) == _value = 0

InitPool ==
    /\ pc = [t \in Tasks |-> "idle"]
    /\ arg \in [Tasks -> Operations]
    /\ mid = [t \in Tasks |-> [uses |-> 0, conn |-> FALSE]]
    /\ text = <<>>
    /\ out = [t \in Tasks |-> None]
    /\ db = [_value |-> max_connections, open |-> {}]

(* async with self._connection_semaphore: enter *)
Acquire(t) ==
    /\ pc[t] = "idle"
    /\ ~locked(db._value)
    /\ db' = [db EXCEPT !._value = @ - 1]
    /\ pc' = [pc EXCEPT ![t] = "try"]
    /\ UNCHANGED <<arg, mid, text, out>>

(* aiosqlite.connect and the two PRAGMAs: the connection opens, or         *)
(* connect raises and conn stays unbound, or a PRAGMA raises on the open   *)
(* connection.                                                             *)
Connect(t) ==
    /\ pc[t] = "try"
    /\ \/ /\ db' = [db EXCEPT !.open = @ \cup {t}]
          /\ mid' = [mid EXCEPT ![t].conn = TRUE]
          /\ pc' = [pc EXCEPT ![t] = "yield"]
          /\ UNCHANGED out
       \/ /\ out' = [out EXCEPT ![t] = OperationalError]
          /\ pc' = [pc EXCEPT ![t] = "finally"]
          /\ UNCHANGED <<db, mid>>
       \/ /\ db' = [db EXCEPT !.open = @ \cup {t}]
          /\ mid' = [mid EXCEPT ![t].conn = TRUE]
          /\ out' = [out EXCEPT ![t] = OperationalError]
          /\ pc' = [pc EXCEPT ![t] = "finally"]
    /\ UNCHANGED <<arg, text>>

(* The body of the caller's async with: its queries answer or raise. *)
UseConnection(t) ==
    /\ pc[t] = "yield"
    /\ \E outcome \in {None, OperationalError} : out' = [out EXCEPT ![t] = outcome]
    /\ pc' = [pc EXCEPT ![t] = "finally"]
    /\ UNCHANGED <<arg, mid, text, db>>

(* finally: close the connection if conn is bound *)
CloseConnection(t) ==
    /\ pc[t] = "finally"
    /\ IF mid[t].conn
       THEN /\ db' = [db EXCEPT !.open = @ \ {t}]
            /\ mid' = [mid EXCEPT ![t].conn = FALSE]
       ELSE UNCHANGED <<db, mid>>
    /\ pc' = [pc EXCEPT ![t] = "exit"]
    /\ UNCHANGED <<arg, text, out>>

(* Mutant: the slot is not given back when the body or the setup raised. *)
Release_LeakOnError(t) ==
    /\ pc[t] = "exit"
    /\ db' = [db EXCEPT !._value = IF out[t].raises # "none" THEN @ ELSE @ + 1]
    /\ mid' = [mid EXCEPT ![t].uses = @ + 1]
    /\ pc' = [pc EXCEPT ![t] =
                 IF out[t].raises # "none" \/ mid[t].uses + 1 = ConnectionUses(arg[t])
                 THEN "done" ELSE "idle"]
    /\ UNCHANGED <<arg, text, out>>

(* async with self._connection_semaphore: exit.  The operation goes on to  *)
(* its next use of get_connection unless it has raised or is finished.     *)
Release(t) ==
    /\ pc[t] = "exit"
    /\ db' = [db EXCEPT !._value = @ + 1]
    /\ mid' = [mid EXCEPT ![t].uses = @ + 1]
    /\ pc' = [pc EXCEPT ![t] =
                 IF out[t].raises # "none" \/ mid[t].uses + 1 = ConnectionUses(arg[t])
                 THEN "done" ELSE "idle"]
    /\ UNCHANGED <<arg, text, out>>

NextPool ==
    \E t \in Tasks :
        \/ Acquire(t)
        \/ Connect(t)
        \/ UseConnection(t)
        \/ CloseConnection(t)
        \/ Release(t)

SpecPool == InitPool /\ [][NextPool]_vars

(***************************************************************************)
(* Properties of the connection pool.                                      *)
(***************************************************************************)
(* C18: in every reachable state of concurrent operations on one           *)
(* DatabaseManager the number of open connections obtained through         *)
(* get_connection is at most max_connections.                              *)
C18_PoolBound == Cardinality(db.open) <= max_connections

(* The pool is full while another operation waits for a connection. *)
C18_Witness ==
    /\ Cardinality(db.open) = max_connections
    /\ \E t \in Tasks : pc[t] = "idle" /\ mid[t].uses < ConnectionUses(arg[t])

(***************************************************************************)
(* Restoration of the quoted phrases by sanitize_search_query.             *)
(***************************************************************************)
(* s with every quoted phrase cleaned where it stands and the text between *)
(* the phrases cleaned.                                                    *)
RECURSIVE PhrasesCleanedInPlace(_)
PhrasesCleanedInPlace(s) ==
    LET open == Find(s, Quote, 1)
        close == IF open = 0 THEN 0 ELSE Find(s, Quote, open + 1)
    IN  IF close = 0 THEN clean(s)
        ELSE clean(SubSeq(s, 1, open - 1))
             \o <<Quote>> \o clean(SubSeq(s, open + 1, close - 1)) \o <<Quote>>
             \o PhrasesCleanedInPlace(SubSeq(s, close + 1, Len(s)))

HoldsPlaceholder(s) == Contains(s, QUOTED_PHRASE)

(* C19: the output of sanitize_search_query holds the cleaned phrases of    *)
(* the input, each in its own quotes, at the positions of the original     *)
(* phrases and in their order, and no placeholder that stands for a phrase *)
(* remains, also when the input itself holds the placeholder text outside  *)
(* or inside a quoted phrase.                                              *)
C19_PhrasesRestoredInPlace ==
    pc = "sanitized" =>
        /\ out = strip(collapse_whitespace(PhrasesCleanedInPlace(strip(text))))
        /\ ~HoldsPlaceholder(text) => ~HoldsPlaceholder(out)

(***************************************************************************)
(* Outcomes of validate_biblical_reference.                                *)
(***************************************************************************)
(* The request is a verse range whose verses the corpus holds. *)
InRangeRange ==
    /\ arg.end_verse # <<>>
    /\ arg.verse <= arg.end_verse[1]
    /\ \E b \in db.books : b.id = arg.book.book_id
    /\ {arg.verse, arg.end_verse[1]} \subseteq ObservedVerses

(* C21: validate_biblical_reference returns the dictionary of validated     *)
(* components (book_id, chapter, verse, end_verse, original, formatted) or *)
(* raises ValidationError, for single verses and for verse ranges; a       *)
(* well-formed in-range range reference is returned as validated           *)
(* components.                                                             *)
C21_TwoOutcomes ==
    Validated("validate_biblical_reference") =>
        /\ out.raises \in {"none", "ValidationError"}
        /\ out.raises = "none" =>
               DOMAIN out.value =
                   {"book_id", "chapter", "verse", "end_verse", "original", "formatted"}
        /\ (db.healthy /\ InRangeRange) => out.raises = "none"

(***************************************************************************)
(* get_verse_data called by itself, as the integration tests call it, on   *)
(* an initialized database.                                                *)
(***************************************************************************)
InitRetrieve == InitGetVerse /\ db._db_manager # "None"

RetrieveVerseData ==
    /\ pc = "start"
    /\ \E response \in {get_verse_data(text, arg.translation, arg.include_interlinear, db)} :
           out' = response
    /\ pc' = "retrieved"
    /\ UNCHANGED <<arg, mid, text, db>>

NextRetrieve == RetrieveVerseData

SpecRetrieve == InitRetrieve /\ [][NextRetrieve]_vars

(* C22: when get_verse_data returns for a verse-range reference, the        *)
(* response has passage_type verse_range and its verse has verse_range and *)
(* individual_verses; a range is never answered as a single_verse passage. *)
C22_RangeIsVerseRange ==
    (pc = "retrieved" /\ arg.end_verse # <<>> /\ out.raises = "none") =>
        /\ out.value.metadata.passage_type = "verse_range"
        /\ {"verse_range", "individual_verses"} \subseteq DOMAIN out.value.verse

(***************************************************************************)
(* validate_search_query and validate_search_limit of validators.py.       *)
(***************************************************************************)
MaxQueryLength == 200

MaxSearchLimit == 50

(* except Exception of validate_search_query: whatever the try block       *)
(* raises, the ValidationError of an empty sanitized query included,      *)
(* becomes the ValidationError of a query that cannot be processed.        *)
ExceptSanitization(outcome) ==
    IF outcome.raises = "none" THEN outcome
    ELSE ValidationError("Unable to process search query",
                         "Please try simpler search terms", "query")

(* The try block of validate_search_query on the sanitized query. *)
checked_sanitized(sanitized) ==
    IF sanitized = <<>>
    THEN ValidationError("Search query contains only invalid characters",
                         "Please use letters, numbers, and basic punctuation", "query")
    ELSE Return(sanitized)

validate_search_query(query) ==
    IF query = <<>> \/ strip(query) = <<>>
    THEN ValidationError("Search query cannot be empty",
                         "Please enter search terms like 'love', 'faith', or \"love one another\"",
                         "query")
    ELSE IF Len(strip(query)) > MaxQueryLength
    THEN ValidationError("Search query is too long",
                         "Please use shorter search terms (maximum 200 characters)", "query")
    ELSE ExceptSanitization(checked_sanitized(sanitize_search_query(strip(query))))

(* validate_search_limit of an int *)
validate_search_limit(limit) ==
    IF limit < 1
    THEN ValidationError("Search limit must be at least 1",
                         "Please use a number between 1 and 50", "limit")
    ELSE IF limit > MaxSearchLimit
    THEN ValidationError("Search limit cannot exceed 50",
                         "Please use a number between 1 and 50 for better performance",
                         "limit")
    ELSE Return(limit)

(***************************************************************************)
(* The query on its way through the search_scripture tool: the server      *)
(* validates it with validate_search_query, search_scripture_data then     *)
(* sanitizes the validated query with _sanitize_search_query and binds the *)
(* result to the MATCH.  mid holds the outcome of the validation, out the  *)
(* bound query.                                                            *)
(***************************************************************************)
LongQuery == [i \in 1..(MaxQueryLength + 1) |-> "a"]

(* Two quoted phrases that hold the text of the placeholder. *)
PlaceholderQuery ==
    <<"\"">> \o QUOTED_PHRASE \o <<"\"", "\"">> \o QUOTED_PHRASE \o <<"\"">>

InitQuery ==
    /\ pc = "start"
    /\ arg \in UNION {[1..n -> QueryTokens] : n \in 0..MaxTokens}
               \cup {<<q>> : q \in TestQueries \cup {LongQuery, PlaceholderQuery, <<"&", "&", "&">>}}
    /\ text = Concat(arg)
    /\ mid = None
    /\ out = None
    /\ db = None

ValidateSearchQuery ==
    /\ pc = "start"
    /\ \E validated_query \in {validate_search_query(text)} :
           /\ mid' = validated_query
           /\ pc' = IF validated_query.raises = "none" THEN "validated" ELSE "rejected"
    /\ UNCHANGED <<arg, text, out, db>>

SanitizeValidatedQuery ==
    /\ pc = "validated"
    /\ out' = _sanitize_search_query(mid.value)
    /\ pc' = "bound"
    /\ UNCHANGED <<arg, mid, text, db>>

NextQuery ==
    \/ ValidateSearchQuery
    \/ SanitizeValidatedQuery

SpecQuery == InitQuery /\ [][NextQuery]_vars

(* C30: for a non-blank query of at most 200 characters whose sanitized     *)
(* form is empty, validate_search_query raises ValidationError with the    *)
(* message that the query contains only invalid characters and the field   *)
(* query; for a query of that length whose sanitized form is not empty it  *)
(* returns sanitize_search_query(query).                                   *)
C30_SpecificCause ==
    (pc \in {"validated", "rejected"}
     /\ strip(text) # <<>> /\ Len(strip(text)) <= MaxQueryLength) =>
        IF sanitize_search_query(text) = <<>>
        THEN /\ mid.raises = "ValidationError"
             /\ mid.message = "Search query contains only invalid characters"
             /\ mid.field = "query"
        ELSE /\ mid.raises = "none"
             /\ mid.value = sanitize_search_query(text)

(***************************************************************************)
(* The search_scripture tool of server.py and both tools together.         *)
(***************************************************************************)
(* search_scripture_data as one function of its arguments and of what the  *)
(* two uses of the database answer: the ranked query (search_results) and  *)
(* the book-name lookup of _get_search_metadata (book_names).              *)
search_scripture_data(query, translation, limit, database, search_results, book_names) ==
    ExceptException(
        IF _sanitize_search_query(query) = <<>>
        THEN Raise(ScriptureSearchError, "Empty or invalid search query")
        ELSE IF get_database_manager(database._db_manager).raises # "none"
        THEN get_database_manager(database._db_manager)
        ELSE IF search_results.raises # "none" THEN search_results
        ELSE IF search_results.value # <<>> /\ book_names.raises # "none" THEN book_names
        ELSE Return(_format_search_response(search_results.value, query, translation,
                                            _get_search_metadata(search_results.value))))

(* The rows of verses_fts joined with verses and books for a translation. *)
JoinedRows(database, translation) ==
    {[book_id |-> v.book_id, book_name |-> b.name, chapter |-> v.chapter,
      verse |-> v.verse, testament |-> b.testament, author |-> b.author,
      genre |-> b.genre] :
        <<v, b>> \in {p \in database.verses \X database.books :
                         p[1].book_id = p[2].id /\ p[1].translation_id = translation}}

(* What a use of the database may answer: the rows that match, up to the   *)
(* limit, or an error; only an error when the database does not answer.    *)
RankedAnswers(database, translation, limit) ==
    {Raise(e, "ranked query") : e \in DatabaseErrors}
    \cup (IF database.healthy
          THEN {Return(<<>>)}
               \cup (IF limit >= 1
                     THEN {Return(<<r>>) : r \in JoinedRows(database, translation)}
                     ELSE {})
          ELSE {})

BookNameAnswers(database) ==
    {Raise(e, "book names") : e \in DatabaseErrors}
    \cup (IF database.healthy THEN {None} ELSE {})

SearchToolQueries ==
    {Concat(t) : t \in UNION {[1..n -> SearchTokens] : n \in 0..MaxQueryTokens}}
    \cup {LongQuery, <<"l", "o", "v", "e">>}

SearchLimits == {0, 1, MaxSearchLimit + 1}

InitSearchTool ==
    /\ pc = "search_start"
    /\ arg \in [query : SearchToolQueries,
                translation : {<<"K", "J", "V">>, <<"N", "I", "V">>, <<>>},
                limit : SearchLimits]
    /\ text = arg.query
    /\ mid = <<>>
    /\ out = None
    /\ db \in {[server_db_manager |-> m, _db_manager |-> m, _is_initialized |-> m # "None",
                file_exists |-> f, schema_complete |-> f, healthy |-> h,
                books |-> BooksTable, verses |-> c, translations |-> {KJV, WEB}] :
                  m \in {"None", "DatabaseManager"}, f \in BOOLEAN, h \in BOOLEAN,
                  c \in GetVerseCorpora}

(* await ensure_database() of search_scripture, outside its try. *)
SearchEnsureDatabase ==
    /\ pc = "search_start"
    /\ IF db.server_db_manager # "None"
       THEN pc' = "search_ensured" /\ UNCHANGED <<db, out>>
       ELSE \E initialized \in {initialize(db)} :
                IF initialized.raises # "none"
                THEN /\ db' = [db EXCEPT !._db_manager = "DatabaseManager",
                                         !._is_initialized = FALSE]
                     /\ out' = initialized
                     /\ pc' = "search_done"
                ELSE /\ db' = [db EXCEPT !._db_manager = "DatabaseManager",
                                         !._is_initialized = TRUE,
                                         !.server_db_manager = "DatabaseManager"]
                     /\ pc' = "search_ensured"
                     /\ UNCHANGED out
    /\ UNCHANGED <<arg, mid, text>>

(* Mutant: an exception other than ValidationError leaves the tool. *)
SearchToolError_Reraise(outcome) ==
    IF outcome.raises = "ValidationError"
    THEN Return(wrap_error_response(outcome.message, outcome.suggestion, "scripture_search"))
    ELSE outcome

(* The answer of the tool to an exception inside its try. *)
SearchToolError(outcome) ==
    IF outcome.raises = "ValidationError"
    THEN Return(wrap_error_response(outcome.message, outcome.suggestion, "scripture_search"))
    ELSE Return(wrap_error_response(outcome.message,
                                    "Try simpler search terms or check spelling",
                                    "scripture_search"))

(* The first of the three validations that raises, or the three values. *)
validated_inputs(validated_query, validated_translation, validated_limit) ==
    IF validated_query.raises # "none" THEN validated_query
    ELSE IF validated_translation.raises # "none" THEN validated_translation
    ELSE IF validated_limit.raises # "none" THEN validated_limit
    ELSE Return([validated_query |-> validated_query.value,
                 validated_translation |-> validated_translation.value,
                 validated_limit |-> validated_limit.value])

SearchValidateInputs ==
    /\ pc = "search_ensured"
    /\ \E validated \in {validated_inputs(validate_search_query(text),
                                           validate_translation(arg.translation, db),
                                           validate_search_limit(arg.limit))} :
           IF validated.raises # "none"
           THEN out' = SearchToolError(validated) /\ pc' = "search_done" /\ UNCHANGED mid
           ELSE mid' = validated.value /\ pc' = "search_validated" /\ UNCHANGED out
    /\ UNCHANGED <<arg, text, db>>

SearchScriptureData ==
    /\ pc = "search_validated"
    /\ \E search_results \in RankedAnswers(db, mid.validated_translation, mid.validated_limit),
          book_names \in BookNameAnswers(db) :
           \E response \in {search_scripture_data(mid.validated_query,
                                                  mid.validated_translation,
                                                  mid.validated_limit, db,
                                                  search_results, book_names)} :
               out' = IF response.raises # "none" THEN SearchToolError(response) ELSE response
    /\ pc' = "search_done"
    /\ UNCHANGED <<arg, mid, text, db>>

NextSearchTool ==
    \/ SearchEnsureDatabase
    \/ SearchValidateInputs
    \/ SearchScriptureData

InitTools == InitGetVerse \/ InitSearchTool

NextTools == NextGetVerse \/ NextSearchTool

SpecTools == InitTools /\ [][NextTools]_vars

(***************************************************************************)
(* Properties of the two tools.                                            *)
(***************************************************************************)
ToolReturned == pc \in {"done", "search_done"} /\ db.server_db_manager # "None"

(* A response without verse and without results is the answer to a failure. *)
IsFailure(response) == "verse" \notin DOMAIN response /\ "results" \notin DOMAIN response

(* C23: once the database is initialized, get_verse and search_scripture    *)
(* never raise: they return a dictionary with context and                  *)
(* theological_frame, after a failure also with error and suggestion, and  *)
(* a database that does not answer is such a failure.                      *)
C23_ToolsNeverRaise ==
    ToolReturned =>
        /\ out.raises = "none"
        /\ {"context", "theological_frame"} \subseteq DOMAIN out.value
        /\ (IsFailure(out.value) \/ ~db.healthy) =>
               {"error", "suggestion"} \subseteq DOMAIN out.value

(* search_scripture has answered a failure of the retrieval on an          *)
(* initialized database.                                                   *)
C23_Witness ==
    /\ ToolReturned
    /\ pc = "search_done"
    /\ "validated_query" \in DOMAIN mid
    /\ out.raises = "none"
    /\ {"context", "theological_frame", "error", "suggestion"} \subseteq DOMAIN out.value
    /\ out.value.error[1] = "Search failed: "

(***************************************************************************)
(* Concurrent get_verse and search_scripture requests on pools of every    *)
(* depth from 1 to max_connections.  The event loop runs every task that   *)
(* can take a step, and every storage call returns or raises: the steps of *)
(* each request are weakly fair.  The requests are numbered with the       *)
(* get_verse requests first.                                               *)
(***************************************************************************)
NumRequests == 2

Requests == 1..NumRequests

InitPoolLive ==
    /\ pc = [t \in Requests |-> "idle"]
    /\ arg \in {a \in [Requests -> {"get_verse", "search_scripture"}] :
                  \A t \in Requests \ {1} : a[t] = "get_verse" => a[t - 1] = "get_verse"}
    /\ mid = [t \in Requests |-> [uses |-> 0, conn |-> FALSE]]
    /\ text = <<>>
    /\ out = [t \in Requests |-> None]
    /\ db \in {[_value |-> n, open |-> {}] : n \in 1..max_connections}

(* One step of a request: the steps of get_connection, with the exit of    *)
(* the async with last.                                                    *)
RequestStep(t) ==
    \/ Acquire(t)
    \/ Connect(t)
    \/ UseConnection(t)
    \/ CloseConnection(t)
    \/ Release(t)

NextPoolLive == \E t \in Requests : RequestStep(t)

(* A request has one step at a time, so that fairness of its steps is     *)
(* fairness of RequestStep.                                                *)
SpecPoolLive ==
    /\ InitPoolLive
    /\ [][NextPoolLive]_vars
    /\ \A t \in Requests : WF_vars(RequestStep(t))

(***************************************************************************)
(* Liveness of the pool.                                                   *)
(***************************************************************************)
(* C24: with every storage call returning or raising, every one of the      *)
(* concurrent get_verse and search requests eventually completes, for      *)
(* every pool depth from 1 on.                                             *)
C24_EveryRequestCompletes == \A t \in Requests : <>(pc[t] = "done")

(* All requests are complete on a pool of depth 1, one of them after the   *)
(* storage raised, and every slot is back.                                 *)
C24_Witness ==
    /\ \A t \in Requests : pc[t] = "done"
    /\ db._value = 1
    /\ db.open = {}
    /\ \E t \in Requests : out[t].raises # "none"
    /\ \E t \in Requests : mid[t].uses = ConnectionUses(arg[t])

(***************************************************************************)
(* Initialization under concurrency: tool calls that run ensure_database   *)
(* in one event loop, with get_database_manager and close_database called  *)
(* at any time.  Here pc, mid and out are functions of the caller; db      *)
(* holds the global of server.py (server_db_manager), the global of        *)
(* database/connection.py (_db_manager), the managers created so far and   *)
(* those whose _is_initialized is set; text holds the last answer of       *)
(* get_database_manager with the initialized managers of that moment.      *)
(* A caller is suspended only inside DatabaseManager.initialize, between   *)
(* the opening of its connection and the closing of it.                    *)
(***************************************************************************)
NumCallers == 2

Callers == 1..NumCallers

(* The DatabaseManager objects, one name for each caller that may create one. *)
ManagerNames == <<"DatabaseManager1", "DatabaseManager2", "DatabaseManager3">>

InitEnsure ==
    /\ pc = [t \in Callers |-> "start"]
    /\ arg = [t \in Callers |-> "ensure_database"]
    /\ mid = [t \in Callers |-> "None"]
    /\ text = <<>>
    /\ out = [t \in Callers |-> None]
    /\ db \in {[server_db_manager |-> "None", _db_manager |-> "None", created |-> {},
                _is_initialized |-> {}, file_exists |-> f, schema_complete |-> s,
                healthy |-> h] : f \in BOOLEAN, s \in BOOLEAN, h \in BOOLEAN}

(* ensure_database up to its first suspension.  With the server's global   *)
(* set it returns it.  Otherwise initialize_database creates a manager,    *)
(* assigns it to the global _db_manager and calls initialize(), which      *)
(* raises when the file is missing and else waits for its connection.      *)
EnsureDatabaseEnter(t) ==
    /\ pc[t] = "start"
    /\ IF db.server_db_manager # "None"
       THEN /\ out' = [out EXCEPT ![t] = Return(db.server_db_manager)]
            /\ pc' = [pc EXCEPT ![t] = "done"]
            /\ UNCHANGED <<db, mid>>
       ELSE /\ db' = [db EXCEPT !._db_manager = ManagerNames[t],
                                !.created = @ \cup {ManagerNames[t]}]
            /\ mid' = [mid EXCEPT ![t] = ManagerNames[t]]
            /\ IF ~db.file_exists
               THEN /\ out' = [out EXCEPT ![t] = initialize(db)]
                    /\ pc' = [pc EXCEPT ![t] = "done"]
               ELSE /\ pc' = [pc EXCEPT ![t] = "initialize"]
                    /\ UNCHANGED out
    /\ UNCHANGED <<arg, text>>

(* The rest of ensure_database, from the last wake-up inside initialize(): *)
(* the connection or the schema test has failed and the exception leaves   *)
(* ensure_database, or the manager of this caller is marked initialized    *)
(* and the server's global is set to what get_database_manager() returns   *)
(* now.                                                                    *)
EnsureDatabaseResume(t) ==
    /\ pc[t] = "initialize"
    /\ \E initialized \in {initialize(db)},
          db_manager \in {get_database_manager(db._db_manager)} :
           IF initialized.raises # "none"
           THEN out' = [out EXCEPT ![t] = initialized] /\ UNCHANGED db
           ELSE IF db_manager.raises # "none"
           THEN /\ out' = [out EXCEPT ![t] = db_manager]
                /\ db' = [db EXCEPT !._is_initialized = @ \cup {mid[t]}]
           ELSE /\ out' = [out EXCEPT ![t] = db_manager]
                /\ db' = [db EXCEPT !._is_initialized = @ \cup {mid[t]},
                                    !.server_db_manager = db_manager.value]
    /\ pc' = [pc EXCEPT ![t] = "done"]
    /\ UNCHANGED <<arg, mid, text>>

(* get_database_manager() called by a validator, a retrieval or a search. *)
GetDatabaseManagerCall ==
    /\ text' = [db_manager |-> get_database_manager(db._db_manager),
                _is_initialized |-> db._is_initialized]
    /\ UNCHANGED <<pc, arg, mid, out, db>>

(* close_database() *)
CloseDatabase ==
    /\ db._db_manager # "None"
    /\ db' = [db EXCEPT !._db_manager = "None"]
    /\ UNCHANGED <<pc, arg, mid, text, out>>

NextEnsure ==
    \/ \E t \in Callers : EnsureDatabaseEnter(t)
    \/ \E t \in Callers : EnsureDatabaseResume(t)
    \/ GetDatabaseManagerCall
    \/ CloseDatabase

SpecEnsure == InitEnsure /\ [][NextEnsure]_vars

(***************************************************************************)
(* Properties of the initialization.                                       *)
(***************************************************************************)
CanInitialize == db.file_exists /\ db.schema_complete /\ db.healthy

(* C25: when several tool calls run ensure_database at the same time on a   *)
(* database that can be initialized, initialize_database runs at most      *)
(* once: one DatabaseManager is ever created, and the calls return the same *)
(* manager.                                                               *)
C25_InitializedOnce ==
    CanInitialize =>
        /\ Cardinality(db.created) <= 1
        /\ \A t, u \in Callers :
               (pc[t] = "done" /\ pc[u] = "done"
                /\ out[t].raises = "none" /\ out[u].raises = "none")
                   => out[t].value = out[u].value

(* C26: get_database_manager returns a manager only if initialize() of     *)
(* that manager has completed successfully; before the initialization,     *)
(* while it runs, after it failed and after close_database it raises       *)
(* RuntimeError.                                                           *)
C26_OnlyInitializedManager ==
    "db_manager" \in DOMAIN text =>
        IF text.db_manager.raises = "none"
        THEN text.db_manager.value \in text._is_initialized
        ELSE text.db_manager.raises = "RuntimeError"

(***************************************************************************)
(* The string form of a parsed reference parsed again: a reference is      *)
(* written with an alias of the registry, parsed, formatted by __str__     *)
(* (the formatted value of validate_biblical_reference) and parsed again.  *)
(* mid keeps the first parse.                                              *)
(***************************************************************************)
InitStr ==
    /\ pc = "start"
    /\ arg \in [alias : Aliases, chapter : 1..MaxNumber, verse : 1..MaxNumber,
                end_verse : {<<>>} \cup {<<e>> : e \in 1..MaxNumber}]
    /\ text = arg.alias \o <<" ">> \o str(arg.chapter) \o <<":">> \o str(arg.verse)
              \o (IF arg.end_verse = <<>> THEN <<>> ELSE <<"-">> \o str(arg.end_verse[1]))
    /\ mid = None
    /\ out = None
    /\ db = None

ParseInput ==
    /\ pc = "start"
    /\ \E parsed \in {parse_reference(text)} :
           /\ mid' = parsed
           /\ pc' = IF parsed.raises = "none" THEN "parsed" ELSE "rejected"
    /\ UNCHANGED <<arg, text, out, db>>

StrParsed ==
    /\ pc = "parsed"
    /\ out' = reference_str(mid.value)
    /\ pc' = "formatted"
    /\ UNCHANGED <<arg, mid, text, db>>

ParseStr ==
    /\ pc = "formatted"
    /\ out' = parse_reference(out)
    /\ pc' = "reparsed"
    /\ UNCHANGED <<arg, mid, text, db>>

NextStr ==
    \/ ParseInput
    \/ StrParsed
    \/ ParseStr

SpecStr == InitStr /\ [][NextStr]_vars

(* C27: for every input that parse_reference accepts, the string form of    *)
(* the parsed reference is accepted too and parses to an equal value: the  *)
(* same type, book code, chapter and verse bounds.                         *)
C27_StrRoundTrip ==
    pc = "reparsed" => out.raises = "none" /\ out.value = mid.value


(* C28: the sanitizer is idempotent and the sanitizer of the search path    *)
(* leaves a sanitized query as it is: the validated query, which is        *)
(* sanitize_search_query of the input, is unchanged by a second             *)
(* sanitize_search_query, and the query bound for the full-text search is   *)
(* the validated query.                                                    *)
C28_SanitizerIdempotent ==
    /\ pc \in {"validated", "bound"} => sanitize_search_query(mid.value) = mid.value
    /\ pc = "bound" => out = mid.value


(* Number of double quotes in s. *)
QuoteCount(s) == Cardinality({i \in 1..Len(s) : s[i] = Quote})

(* C29: the output of sanitize_search_query holds an even number of double  *)
(* quotes, so that every quote opens or closes a complete phrase.          *)
C29_BalancedQuotes ==
    pc = "sanitized" => QuoteCount(out) % 2 = 0
====
